---- MODULE Spec2Model ----
(***************************************************************************)
(* Model of the ts2scl compiler pipeline.                                  *)
(*                                                                         *)
(* Part I   the orchestrator (MainCompiler): the processed-file set, the   *)
(*          metadata registry, the recursive metadata collection           *)
(*          (phase 1), the per-category block generation (phase 2) and     *)
(*          the instance-DB emission.  Asynchrony is modelled at the       *)
(*          granularity of JavaScript: the code between two awaits is one  *)
(*          atomic step; promise reactions run from a FIFO job queue;      *)
(*          the completion of a dynamic import() is an event of the host.  *)
(* Part II  the expression lowering (SCLExpressionGenerator): operator     *)
(*          table and parenthesization.                                    *)
(***************************************************************************)
EXTENDS Integers, Sequences, FiniteSets, TLC

(***************************************************************************)
(* Bounds of the model.                                                    *)
(***************************************************************************)
MaxCalls == 2
MaxFaults == 1
MaxRegister == 1

None == "none"

(***************************************************************************)
(* The project being compiled: files, their import declarations and the    *)
(* decorated classes they export.                                          *)
(***************************************************************************)
Files == {"a", "b", "c", "k"}

\* A path is a file together with the way it is spelled: the resolved
\* absolute file name, or the (relative) spelling a caller passes in.
Forms == {"abs", "rel"}
Paths == Files \X Forms

\* filePath.includes('src/ts2scl/core/') || filePath.includes('src/ts2scl/utils/')
IsCore(f) == f = "k"

SCLCategory == {"UDT", "DB", "FC", "FB"}
CategoryOrder == <<"UDT", "DB", "FC", "FB">>

SCLInstanceType == {"single", "multiple", "parameter"}

\* The decorated classes.  members are the properties carrying @Instance.
Decl ==
  [ aMain  |-> [file |-> "a", name |-> "Main",  category |-> "FB", sclInstruction |-> FALSE,
                members |-> << [name |-> "t1", kind |-> "single",   type |-> "TON"],
                               [name |-> "m",  kind |-> "multiple", type |-> "Drive"] >>],
    aCalc  |-> [file |-> "a", name |-> "Calc",  category |-> "FC", sclInstruction |-> FALSE,
                members |-> << [name |-> "t1", kind |-> "single",   type |-> "TOF"] >>],
    aRec   |-> [file |-> "a", name |-> "Rec",   category |-> "UDT", sclInstruction |-> FALSE,
                members |-> << >>],
    aStore |-> [file |-> "a", name |-> "Store", category |-> "DB", sclInstruction |-> FALSE,
                members |-> << >>],
    bDrive |-> [file |-> "b", name |-> "Drive", category |-> "FB", sclInstruction |-> FALSE,
                members |-> << [name |-> "s",  kind |-> "single",    type |-> "TON"],
                               [name |-> "p",  kind |-> "parameter", type |-> "Aux"] >>],
    bAux   |-> [file |-> "b", name |-> "Aux",   category |-> "FB", sclInstruction |-> FALSE,
                members |-> << [name |-> "u",  kind |-> "single",    type |-> "TOF"] >>],
    cMain  |-> [file |-> "c", name |-> "Main",  category |-> "FB", sclInstruction |-> FALSE,
                members |-> << >>],
    cRec   |-> [file |-> "c", name |-> "Rec2",  category |-> "UDT", sclInstruction |-> FALSE,
                members |-> << >>],
    kTON   |-> [file |-> "k", name |-> "TON",   category |-> "FB", sclInstruction |-> TRUE,
                members |-> << >>] ]

DeclIds == DOMAIN Decl

\* Object.entries(module): the exports of a file, in declaration order.
Exports(f) ==
  CASE f = "a" -> <<"aMain", "aCalc", "aRec", "aStore">>
    [] f = "b" -> <<"bDrive", "bAux">>
    [] f = "c" -> <<"cMain", "cRec">>
    [] f = "k" -> <<"kTON">>

\* The import declarations of each file, in source order; "missing" is a
\* relative module specifier that ts.resolveModuleName cannot resolve.
Layouts ==
  { [a |-> <<"b", "c">>,       b |-> <<"c", "k">>, c |-> <<"a">>, k |-> << >>],
    [a |-> <<"missing", "b">>, b |-> <<"c">>,      c |-> << >>,   k |-> << >>] }

FileStatus == {"ok", "noSource", "loadFails"}

Range(s) == {s[i] : i \in DOMAIN s}

VARIABLES
  imports,            \* the import declarations of the project's files
  status,             \* per file: ok / no source file for the program / import() rejects
  genFails,           \* the declarations whose generateCode throws
  processedFiles,     \* MainCompiler.processedFiles
  metadataRegistry,   \* MainCompiler.metadataRegistry: key -> declaration whose metadata is stored
  frames,             \* the processFileAndImports invocations, per path
  collectCount,       \* per file: how often collectMetadataFromFile read its exports
  calls,              \* the public calls made on the compiler
  cats,               \* per call and category: the Promise.all over the generation tasks
  jobs,               \* the promise-reaction job queue (FIFO)
  artifacts,          \* the output directory: artifact name -> content
  writes,             \* every writeFileSync made: which task of which call wrote which name
  lateRegistered,     \* the tasks that found their key missing from the registry
  log,                \* what the logger recorded at error / warn level
  registerCount,      \* number of registerBlockMetadata calls made
  source,             \* the source text being lowered, as the parser's input
  expr,               \* the source expression handed to the expression generator
  lowered,            \* its SCL text, as a sequence of tokens
  thrown              \* the message of the error the lowering threw instead

vars == <<imports, status, genFails, processedFiles, metadataRegistry, frames,
          collectCount, calls, cats, jobs, artifacts, writes, lateRegistered,
          log, registerCount, source, expr, lowered, thrown>>

world == <<imports, status, genFails>>
lowering == <<source, expr, lowered, thrown>>

Calls == 1..MaxCalls

(***************************************************************************)
(* Metadata registry.                                                      *)
(***************************************************************************)
\* `${blockName}:${blockType}`
createMetadataKey(blockName, blockType) == <<blockName, blockType>>

KeyOf(d) == createMetadataKey(Decl[d].name, Decl[d].category)

Keys == {KeyOf(d) : d \in DeclIds}

\* getBlockMetadata: the stored metadata, or undefined
getBlockMetadata(reg, blockName, blockType) ==
  IF createMetadataKey(blockName, blockType) \in DOMAIN reg
  THEN reg[createMetadataKey(blockName, blockType)] ELSE None

\* The body of the export loop of collectMetadataFromFile for one export:
\* an entry that is present is kept, otherwise the metadata is stored.
CollectExportNoCheck(reg, d) == [reg EXCEPT ![KeyOf(d)] = d]

CollectExport(reg, d) ==
  IF reg[KeyOf(d)] # None THEN reg ELSE [reg EXCEPT ![KeyOf(d)] = d]

RECURSIVE CollectExports(_, _, _)
CollectExports(reg, exports, i) ==
  IF i > Len(exports) THEN reg
  ELSE CollectExports(CollectExport(reg, exports[i]), exports, i + 1)

\* collectMetadataFromFile after the module was loaded
collectMetadataFromFile(reg, f) == CollectExports(reg, Exports(f), 1)

(***************************************************************************)
(* Promise-reaction jobs.  t is the kind of continuation, c the call,      *)
(* x its subject (a path, a category or a declaration).                    *)
(***************************************************************************)
Job(t, c, x, ok) == [t |-> t, c |-> c, x |-> x, ok |-> ok]

(***************************************************************************)
(* Phase 1: processFileAndImports.                                         *)
(***************************************************************************)
Resolved == {"skipped", "failed", "done"}
Settled == Resolved \cup {"rejected"}

\* the awaiting side of an invocation: another invocation (a path) or a public call
NoParent == <<"none", "none">>
RootCall == <<"call", "root">>

NoFrame == [st |-> "none", parent |-> NoParent]

\* extractImportPaths: the resolvable imports, as resolved file names
extractImportPaths(f) ==
  LET ok == SelectSeq(imports[f], LAMBDA t : t # "missing")
  IN  [i \in 1..Len(ok) |-> <<ok[i], "abs">>]

UnresolvedImports(f) == {t \in Range(imports[f]) : t = "missing"}

\* the invocations awaited by the Promise.all of invocation p
Kids(fr, p) == {q \in Paths : fr[q].parent = p}

\* What processFileAndImports does when processing a file throws
\* (createTypeScriptProgram has no source file): the catch logs the error
\* and the promise of the invocation resolves.
ProcessErrorRethrown(S, p, parent) ==
  [S EXCEPT !.fr[p] = [st |-> "rejected", parent |-> parent],
            !.log = @ \cup {<<"process", p[1]>>}]

ProcessError(S, p, parent) ==
  [S EXCEPT !.fr[p] = [st |-> "failed", parent |-> parent],
            !.log = @ \cup {<<"process", p[1]>>}]

\* The synchronous prefix of processFileAndImports(p): it runs, depth
\* first, the synchronous prefixes of the invocations for the imports.
\* S = [proc, fr, log, q]; parent is the invocation awaiting this one;
\* q collects the reactions that become due.
RECURSIVE processFileAndImports(_, _, _)
RECURSIVE visitImports(_, _, _, _)

processFileAndImports(S, p, parent) ==
  IF p \in S.proc THEN S
  ELSE LET S1 == [S EXCEPT !.proc = @ \cup {p}] IN
    IF IsCore(p[1])
    THEN [S1 EXCEPT !.fr[p] = [st |-> "skipped", parent |-> parent]]
    ELSE IF status[p[1]] = "noSource"
    THEN ProcessError(S1, p, parent)
    ELSE LET ips == extractImportPaths(p[1])
             S2  == visitImports([S1 EXCEPT !.log = @ \cup
                                    {<<"unresolved", p[1]>> : t \in UnresolvedImports(p[1])}],
                                 ips, 1, p)
         IN  IF Len(ips) = 0
             THEN [S2 EXCEPT !.fr[p] = [st |-> "waitModule", parent |-> parent]]
             ELSE [S2 EXCEPT !.fr[p] = [st |-> "waitImports", parent |-> parent],
                             !.q = IF \A k \in Kids(S2.fr, p) : S2.fr[k].st \in Settled
                                   THEN Append(@, Job("joined", 0, p, TRUE)) ELSE @]

visitImports(S, ips, i, parent) ==
  IF i > Len(ips) THEN S
  ELSE visitImports(processFileAndImports(S, ips[i], parent), ips, i + 1, parent)

(***************************************************************************)
(* Initial state.                                                          *)
(***************************************************************************)
Faults(st, gf) == Cardinality({f \in Files : st[f] # "ok"}) + Cardinality(gf)

IdleCall == [pc |-> "idle", kind |-> None, entry |-> NoParent, own |-> FALSE, awaited |-> FALSE, catsDone |-> 0]

NoCat == [left |-> 0, settled |-> FALSE]

NoExpr == [kind |-> "none"]

\* the compiler after construction
InitCompiler ==
  /\ processedFiles = {}
  /\ metadataRegistry = [k \in Keys |-> None]
  /\ frames = [p \in Paths |-> NoFrame]
  /\ collectCount = [f \in Files |-> 0]
  /\ calls = [c \in Calls |-> IdleCall]
  /\ cats = [c \in Calls |-> [cat \in SCLCategory |-> NoCat]]
  /\ jobs = << >>
  /\ artifacts = << >>
  /\ writes = {}
  /\ lateRegistered = {}
  /\ log = {}
  /\ registerCount = 0

Init ==
  /\ imports \in Layouts
  /\ status \in [Files -> FileStatus]
  /\ genFails \in SUBSET DeclIds
  /\ Faults(status, genFails) <= MaxFaults
  /\ InitCompiler
  /\ source = None
  /\ expr = NoExpr
  /\ lowered = None
  /\ thrown = None

(***************************************************************************)
(* Actions of phase 1.                                                     *)
(***************************************************************************)
\* the call whose await hangs on the invocation for path p
CallAwaiting(cs, p) == CHOOSE c \in Calls : cs[c].entry = p /\ cs[c].awaited

\* The reactions that become due when the invocation for p settles: the
\* Promise.all of the awaiting invocation, or the await of the public call.
Notify(fr, cs, p) ==
  IF fr[p].parent = RootCall
  THEN <<Job("phase1done", CallAwaiting(cs, p), p, TRUE)>>
  ELSE IF \A k \in Kids(fr, fr[p].parent) : fr[k].st \in Settled
       THEN <<Job("joined", 0, fr[p].parent, TRUE)>>
       ELSE << >>

\* compile(inputPath, ..) up to `await this.processFileAndImports(inputPath)`,
\* or processFileAndImportsRecursively(filePath) up to its await.
StartCall(c, kind, p) ==
  /\ calls[c].pc = "idle"
  /\ \A b \in Calls : b < c => calls[b].pc # "idle"
  /\ LET S == processFileAndImports(
                [proc |-> processedFiles, fr |-> frames, log |-> log, q |-> jobs],
                p, RootCall)
         pending == p \notin processedFiles /\ S.fr[p].st \notin Settled
     IN  /\ processedFiles' = S.proc
         /\ frames' = S.fr
         /\ log' = S.log
         /\ jobs' = IF pending THEN S.q ELSE Append(S.q, Job("phase1done", c, p, TRUE))
         /\ calls' = [calls EXCEPT ![c] = [pc |-> "phase1", kind |-> kind, entry |-> p,
                                           own |-> (p \notin processedFiles),
                                           awaited |-> pending, catsDone |-> 0]]
  /\ UNCHANGED <<world, lowering, metadataRegistry, collectCount, cats, artifacts, writes,
                 lateRegistered, registerCount>>

\* `await Promise.all(importPromises)` resumes, and collectMetadataFromFile
\* starts the dynamic import of the file.
ImportsJoined ==
  /\ jobs # << >>
  /\ Head(jobs).t = "joined"
  /\ LET p == Head(jobs).x IN
       IF \E k \in Kids(frames, p) : frames[k].st = "rejected"
       THEN LET fr == [frames EXCEPT ![p].st = "rejected"] IN
              /\ frames' = fr
              /\ jobs' = Tail(jobs) \o Notify(fr, calls, p)
       ELSE /\ frames' = [frames EXCEPT ![p].st = "waitModule"]
            /\ jobs' = Tail(jobs)
  /\ UNCHANGED <<world, lowering, processedFiles, metadataRegistry, collectCount, calls, cats,
                 artifacts, writes, lateRegistered, log, registerCount>>

\* `module = await import(fileUrl)` settles (an event of the host, delivered
\* when no reaction is queued); on success the export loop runs; then the
\* invocation resolves.
ModuleLoaded(p) ==
  /\ jobs = << >>
  /\ frames[p].st = "waitModule"
  /\ IF status[p[1]] = "loadFails"
     THEN /\ log' = log \cup {<<"import", p[1]>>}
          /\ UNCHANGED <<metadataRegistry, collectCount>>
     ELSE /\ metadataRegistry' = collectMetadataFromFile(metadataRegistry, p[1])
          /\ collectCount' = [collectCount EXCEPT ![p[1]] = @ + 1]
          /\ UNCHANGED log
  /\ LET fr == [frames EXCEPT ![p].st = "done"] IN
       /\ frames' = fr
       /\ jobs' = Notify(fr, calls, p)
  /\ UNCHANGED <<world, lowering, processedFiles, calls, cats, artifacts, writes,
                 lateRegistered, registerCount>>

\* The await of the call on processFileAndImports resumes.  A collection
\* call returns.  compile goes on: createTypeScriptProgram(inputPath), then
\* the four compileBlockType calls, each up to the import() of getTypesFromFile.
Phase1Done ==
  /\ jobs # << >>
  /\ Head(jobs).t = "phase1done"
  /\ LET c == Head(jobs).c
         p == Head(jobs).x
         raised == calls[c].own /\ frames[p].st = "rejected"
     IN  /\ calls' = [calls EXCEPT ![c].pc =
                        IF raised THEN "collectRaised"
                        ELSE IF calls[c].kind = "collect" THEN "done"
                        ELSE IF status[p[1]] = "noSource" THEN "compileRaised"
                        ELSE "loading"]
         /\ log' = IF ~raised /\ calls[c].kind = "compile"
                      /\ status[p[1]] = "noSource"
                   THEN log \cup {<<"compile", p[1]>>} ELSE log
  /\ jobs' = Tail(jobs)
  /\ UNCHANGED <<world, lowering, processedFiles, metadataRegistry, frames, collectCount, cats,
                 artifacts, writes, lateRegistered, registerCount>>

\* registerBlockMetadata(blockName, blockType, metadata)
registerBlockMetadata(k, d) ==
  /\ registerCount < MaxRegister
  /\ registerCount' = registerCount + 1
  /\ metadataRegistry' = [metadataRegistry EXCEPT ![k] = d]
  /\ UNCHANGED <<world, lowering, processedFiles, frames, collectCount, calls, cats, jobs,
                 artifacts, writes, lateRegistered, log>>

(***************************************************************************)
(* Instance records.                                                       *)
(***************************************************************************)
\* The @Instance(instanceType) property decorator: the instanceType it
\* stores in the property metadata, or undefined.
Instance(instanceType) ==
  IF instanceType = "single" THEN "single"
  ELSE IF instanceType = "multiple" THEN "multiple"
  ELSE None

\* getSCLMetadata(class).properties[name]?.instanceType
PropertyInstanceType(d, name) ==
  IF d = None THEN None
  ELSE IF \E i \in DOMAIN Decl[d].members : Decl[d].members[i].name = name
  THEN LET i == CHOOSE i \in DOMAIN Decl[d].members : Decl[d].members[i].name = name
       IN  Instance(Decl[d].members[i].kind)
  ELSE None

\* blockOptions.sclInstruction of the metadata registered for a type name, if any
SclInstructionOf(reg, type, blockType) ==
  LET e == getBlockMetadata(reg, type, blockType)
  IN  IF e = None THEN FALSE ELSE Decl[e].sclInstruction

\* InstanceDBGenerator.getInstanceDBMetadata(classDeclaration, blockType):
\* one record per @Instance member; a member whose instanceType is not in
\* the registered metadata of the class makes the whole extraction throw,
\* which is caught and yields [].
getInstanceDBMetadata(reg, d) ==
  LET classMetadata == getBlockMetadata(reg, Decl[d].name, Decl[d].category)
      ms == Decl[d].members
      rec(i) == [name |-> ms[i].name,
                 instanceType |-> PropertyInstanceType(classMetadata, ms[i].name),
                 instanceSclType |-> ms[i].type,
                 sclInstruction |-> SclInstructionOf(reg, ms[i].type, Decl[d].category)]
  IN  IF \E i \in DOMAIN ms : rec(i).instanceType = None
      THEN << >>
      ELSE [i \in DOMAIN ms |-> rec(i)]

\* generateInstanceDBFiles: the instances that are written; the others are
\* logged as 'Instance type will not be generated'.
Materialized(instances) == SelectSeq(instances, LAMBDA r : r.instanceType = "single")

(***************************************************************************)
(* Phase 2: compileBlockType.                                              *)
(***************************************************************************)
Suffix(cat) ==
  CASE cat = "UDT" -> "udt" [] cat = "DB" -> "db"
    [] cat = "FC" -> "fc.scl" [] cat = "FB" -> "fb.scl"

BlockArtifact(d) == <<Decl[d].name, Suffix(Decl[d].category)>>
InstanceArtifact(name) == <<name, "instance.db">>

\* getTypesFromFile(inputPath, category)
getTypesFromFile(f, cat) ==
  IF status[f] = "loadFails" THEN << >>
  ELSE SelectSeq(Exports(f), LAMBDA d : Decl[d].category = cat)

\* The synchronous prefix of one generation task, up to `await generateCode`:
\* a key missing from the registry is stored now; then the code is generated.
\* T = [reg, late, log, q]
StartTaskMissFatal(T, c, d) ==
  LET miss == T.reg[KeyOf(d)] = None
  IN  [T EXCEPT !.late = IF miss THEN @ \cup {<<c, d>>} ELSE @,
                !.log = IF miss \/ d \in genFails THEN @ \cup {<<"generate", d>>} ELSE @,
                !.q = Append(@, Job("cont", c, d, ~miss /\ d \notin genFails))]

StartTask(T, c, d) ==
  LET miss == T.reg[KeyOf(d)] = None
  IN  [T EXCEPT !.reg = IF miss THEN [@ EXCEPT ![KeyOf(d)] = d] ELSE @,
                !.late = IF miss THEN @ \cup {<<c, d>>} ELSE @,
                !.log = IF d \in genFails THEN @ \cup {<<"generate", d>>} ELSE @,
                !.q = Append(@, Job("cont", c, d, d \notin genFails))]

\* (variant: the tasks are awaited one after the other inside the try, so
\* that the first failure leaves the later ones unstarted)
RECURSIVE StartTasksUntilFailure(_, _, _, _)
StartTasksUntilFailure(T, c, types, i) ==
  IF i > Len(types) THEN T
  ELSE IF types[i] \in genFails THEN StartTask(T, c, types[i])
  ELSE StartTasksUntilFailure(StartTask(T, c, types[i]), c, types, i + 1)

\* types.map(async (type) => ...): every task is started, in order
RECURSIVE StartTasks(_, _, _, _)
StartTasks(T, c, types, i) ==
  IF i > Len(types) THEN T
  ELSE StartTasks(StartTask(T, c, types[i]), c, types, i + 1)

\* host event: the import() of the four getTypesFromFile calls settles
TypesLoaded(c) ==
  /\ jobs = << >>
  /\ calls[c].pc = "loading"
  /\ calls' = [calls EXCEPT ![c].pc = "generating"]
  /\ jobs' = [i \in 1..4 |-> Job("types", c, CategoryOrder[i], TRUE)]
  /\ log' = IF status[calls[c].entry[1]] = "loadFails"
            THEN log \cup {<<"types", calls[c].entry[1]>>} ELSE log
  /\ UNCHANGED <<world, lowering, processedFiles, metadataRegistry, frames, collectCount, cats,
                 artifacts, writes, lateRegistered, registerCount>>

\* compileBlockType after `await this.getTypesFromFile`: the map over the
\* types, then `await Promise.all(typePromises)`.
CompileBlockType ==
  /\ jobs # << >>
  /\ Head(jobs).t = "types"
  /\ LET c == Head(jobs).c
         cat == Head(jobs).x
         types == getTypesFromFile(calls[c].entry[1], cat)
         T == StartTasks([reg |-> metadataRegistry, late |-> lateRegistered,
                          log |-> log, q |-> Tail(jobs)], c, types, 1)
     IN  /\ metadataRegistry' = T.reg
         /\ lateRegistered' = T.late
         /\ log' = T.log
         /\ cats' = [cats EXCEPT ![c][cat] = [left |-> Len(types), settled |-> Len(types) = 0]]
         /\ jobs' = IF Len(types) = 0 THEN Append(T.q, Job("catdone", c, cat, TRUE)) ELSE T.q
  /\ UNCHANGED <<world, lowering, processedFiles, frames, collectCount, calls, artifacts, writes,
                 registerCount>>

\* the writes of one task: the block artifact, then for FC and FB the
\* instance DBs of generateInstanceDBFiles
TaskWrites(reg, d) ==
  <<[name |-> BlockArtifact(d), content |-> <<d>>]>> \o
  (IF Decl[d].category \in {"FC", "FB"}
   THEN LET ins == Materialized(getInstanceDBMetadata(reg, d))
        IN  [i \in 1..Len(ins) |->
               [name |-> InstanceArtifact(ins[i].name),
                content |-> <<ins[i].instanceSclType, ins[i].sclInstruction>>]]
   ELSE << >>)

RECURSIVE WriteAll(_, _, _)
WriteAll(arts, ws, i) ==
  IF i > Len(ws) THEN arts
  ELSE WriteAll((ws[i].name :> ws[i].content) @@ arts, ws, i + 1)

\* a task resumes after `await generateCode(..)`: it throws what
\* generateCode threw, or writes its artifacts
TaskContinues ==
  /\ jobs # << >>
  /\ Head(jobs).t = "cont"
  /\ LET c == Head(jobs).c
         d == Head(jobs).x
         ws == TaskWrites(metadataRegistry, d)
     IN  IF Head(jobs).ok
         THEN /\ artifacts' = WriteAll(artifacts, ws, 1)
              /\ writes' = writes \cup {[call |-> c, task |-> d, name |-> ws[i].name] :
                                          i \in 1..Len(ws)}
              /\ jobs' = Append(Tail(jobs), Job("elt", c, d, TRUE))
         ELSE /\ UNCHANGED <<artifacts, writes>>
              /\ jobs' = Append(Tail(jobs), Job("elt", c, d, FALSE))
  /\ UNCHANGED <<world, lowering, processedFiles, metadataRegistry, frames, collectCount, calls,
                 cats, lateRegistered, log, registerCount>>

\* the reaction of Promise.all(typePromises) to one task settling
TaskSettled ==
  /\ jobs # << >>
  /\ Head(jobs).t = "elt"
  /\ LET c == Head(jobs).c
         cat == Decl[Head(jobs).x].category
         k == cats[c][cat]
     IN  IF k.settled
         THEN /\ jobs' = Tail(jobs)
              /\ UNCHANGED cats
         ELSE IF ~Head(jobs).ok
         THEN /\ cats' = [cats EXCEPT ![c][cat].settled = TRUE]
              /\ jobs' = Append(Tail(jobs), Job("catdone", c, cat, FALSE))
         ELSE /\ cats' = [cats EXCEPT ![c][cat] = [left |-> k.left - 1, settled |-> k.left = 1]]
              /\ jobs' = IF k.left = 1 THEN Append(Tail(jobs), Job("catdone", c, cat, TRUE))
                         ELSE Tail(jobs)
  /\ UNCHANGED <<world, lowering, processedFiles, metadataRegistry, frames, collectCount, calls,
                 artifacts, writes, lateRegistered, log, registerCount>>

\* compileBlockType resumes after `await Promise.all(typePromises)` (its
\* catch logs a rejection) and resolves; the Promise.all of compile counts it.
CategoryDone ==
  /\ jobs # << >>
  /\ Head(jobs).t = "catdone"
  /\ LET c == Head(jobs).c
         cat == Head(jobs).x
     IN  /\ log' = IF Head(jobs).ok THEN log ELSE log \cup {<<"category", cat>>}
         /\ calls' = [calls EXCEPT ![c].catsDone = @ + 1]
         /\ jobs' = IF calls[c].catsDone = 3
                    THEN Append(Tail(jobs), Job("compiled", c, cat, TRUE)) ELSE Tail(jobs)
  /\ UNCHANGED <<world, lowering, processedFiles, metadataRegistry, frames, collectCount, cats,
                 artifacts, writes, lateRegistered, registerCount>>

\* compile resumes after `await Promise.all(compilePromises)` and returns true
CompileReturns ==
  /\ jobs # << >>
  /\ Head(jobs).t = "compiled"
  /\ calls' = [calls EXCEPT ![Head(jobs).c].pc = "done"]
  /\ jobs' = Tail(jobs)
  /\ UNCHANGED <<world, lowering, processedFiles, metadataRegistry, frames, collectCount, cats,
                 artifacts, writes, lateRegistered, log, registerCount>>

(***************************************************************************)
(* The inputs of the public calls.                                         *)
(***************************************************************************)
EntryPaths == {<<"a", "rel">>, <<"b", "abs">>, <<"k", "abs">>}
RegisterInputs == {<<KeyOf("aMain"), "cMain">>}

Next ==
  \/ \E c \in Calls, kind \in {"compile", "collect"}, p \in EntryPaths : StartCall(c, kind, p)
  \/ ImportsJoined
  \/ \E p \in Paths : ModuleLoaded(p)
  \/ Phase1Done
  \/ \E c \in Calls : TypesLoaded(c)
  \/ CompileBlockType
  \/ TaskContinues
  \/ TaskSettled
  \/ CategoryDone
  \/ CompileReturns
  \/ \E r \in RegisterInputs : registerBlockMetadata(r[1], r[2])

Spec == Init /\ [][Next]_vars

(***************************************************************************)
(* Vocabulary of the properties.                                           *)
(***************************************************************************)
\* a file whose imports processFileAndImports gets to see
Traversable(f) == ~IsCore(f) /\ status[f] # "noSource"

\* the files reachable from a file through resolvable imports
RECURSIVE ImportClosure(_)
ImportClosure(S) ==
  LET N == S \cup {t \in Files : \E f \in S : Traversable(f) /\ t \in Range(imports[f])}
  IN  IF N = S THEN S ELSE ImportClosure(N)

\* metadata collection is over for a file: some invocation for it has settled
CollectionOver(f) == \E p \in Paths : p[1] = f /\ frames[p].st \in Settled

\* a generation task of call c has been started and has not settled
TaskInFlight(c) == \E i \in DOMAIN jobs : jobs[i].c = c /\ jobs[i].t \in {"cont", "elt"}

Started(c) == calls[c].pc # "idle"
EntryFile(c) == calls[c].entry[1]

\* the declarations compile(entry) generates
EntryDecls(c) ==
  IF status[EntryFile(c)] = "loadFails" THEN {} ELSE Range(Exports(EntryFile(c)))

Written(c, d) == [call |-> c, task |-> d, name |-> BlockArtifact(d)] \in writes

Quiescent ==
  /\ jobs = << >>
  /\ \A p \in Paths : frames[p].st \in Settled \cup {"none"}

TypeOK ==
  /\ processedFiles \subseteq Paths
  /\ \A k \in Keys : metadataRegistry[k] \in DeclIds \cup {None}
  /\ \A c \in Calls : calls[c].pc \in {"idle", "phase1", "loading", "generating", "done",
                                       "compileRaised", "collectRaised"}
  /\ \A p \in Paths : frames[p].st \in {"none", "waitImports", "waitModule"} \cup Settled

(***************************************************************************)
(* Orchestrator properties.                                                *)
(***************************************************************************)
\* C1: no generation task of a compile call is started before metadata
\* collection is over for the entry file and for every file reachable from
\* it through local imports, whatever other calls run on the compiler.
C1_PhaseBarrier ==
  \A c \in Calls :
    TaskInFlight(c) => \A f \in ImportClosure({EntryFile(c)}) : CollectionOver(f)

\* C2: when compile returns, every declaration of the entry file whose own
\* generation did not throw has its artifact written by that call, and a
\* generation failure is reported for the failing declaration only.
C2_SiblingsComplete ==
  /\ \A c \in Calls : calls[c].pc = "done" /\ calls[c].kind = "compile" =>
       \A d \in EntryDecls(c) : d \notin genFails => Written(c, d)
  /\ \A d \in DeclIds : <<"generate", d>> \in log => d \in genFails
  /\ \A w \in writes : w.task \notin genFails

\* a compile call returned although a declaration failed, and a sibling of
\* the failing declaration in its category was written
C2_Witness ==
  \E c \in Calls, d \in genFails, e \in DeclIds :
    /\ calls[c].pc = "done" /\ d \in EntryDecls(c) /\ e \in EntryDecls(c)
    /\ e # d /\ Decl[e].category = Decl[d].category
    /\ Written(c, e) /\ <<"category", Decl[d].category>> \in log

\* C3: metadata is collected from every reachable file exactly once
C3_CollectedExactlyOnce ==
  /\ \A f \in Files : collectCount[f] <= 1
  /\ Quiescent =>
       \A c \in Calls : Started(c) =>
         \A f \in ImportClosure({EntryFile(c)}) :
           ~IsCore(f) /\ status[f] = "ok" => collectCount[f] = 1

\* C4: an entry of the registry is never replaced
C4_FirstWriterWins ==
  [][\A k \in Keys : metadataRegistry[k] # None => metadataRegistry'[k] = metadataRegistry[k]]_vars

C6_RevisitIsNoOp ==
  [][\A f \in Files :
       collectCount[f] >= 1 /\ collectCount'[f] = collectCount[f] + 1
         => metadataRegistry' = metadataRegistry]_vars

\* a file was visited twice, and its declarations are in the registry
C6_Witness ==
  \E f \in Files : collectCount[f] = 2 /\ \A i \in DOMAIN Exports(f) :
                      metadataRegistry[KeyOf(Exports(f)[i])] # None

\* C7: no two tasks of a compilation write the same artifact name
C7_ArtifactsDisjoint ==
  \A w1 \in writes, w2 \in writes :
    w1.call = w2.call /\ w1.name = w2.name => w1.task = w2.task

\* C8: only members of kind single get an instance artifact; members of
\* kind multiple or parameter are recorded in the registered metadata of
\* their block
C8_OnlySingleMaterialized ==
  /\ \A w \in writes : w.name[2] = "instance.db" =>
       \E i \in DOMAIN Decl[w.task].members :
         /\ Decl[w.task].members[i].name = w.name[1]
         /\ Decl[w.task].members[i].kind = "single"
  /\ \A k \in Keys : metadataRegistry[k] # None =>
       \A i \in DOMAIN Decl[metadataRegistry[k]].members :
         LET m == Decl[metadataRegistry[k]].members[i] IN
           m.kind \in {"multiple", "parameter"} =>
             PropertyInstanceType(metadataRegistry[k], m.name) = m.kind

OperatorPrecedence ==
  [Brackets |-> 1, Dereference |-> 1, UnaryOperators |-> 2, PowerAndNot |-> 3,
   Multiplicative |-> 4, Additive |-> 5, Relational |-> 6, Equality |-> 7,
   LogicalAnd |-> 8, LogicalXor |-> 9, LogicalOr |-> 10, Assignment |-> 11]

OperatorInfo(scl, prec, ra) ==
  [sclOperator |-> scl, precedence |-> prec, isRightAssociative |-> ra]

OPERATOR_MAP ==
  [ EqualsToken |-> OperatorInfo(":=", OperatorPrecedence.Assignment, TRUE),
    AmpersandToken |-> OperatorInfo("AND", OperatorPrecedence.LogicalAnd, FALSE),
    AmpersandAmpersandToken |-> OperatorInfo("AND", OperatorPrecedence.LogicalAnd, FALSE),
    BarToken |-> OperatorInfo("OR", OperatorPrecedence.LogicalOr, FALSE),
    BarBarToken |-> OperatorInfo("OR", OperatorPrecedence.LogicalOr, FALSE),
    CaretToken |-> OperatorInfo("XOR", OperatorPrecedence.LogicalXor, FALSE),
    ExclamationToken |-> OperatorInfo("NOT", OperatorPrecedence.PowerAndNot, FALSE),
    AsteriskAsteriskToken |-> OperatorInfo("**", OperatorPrecedence.PowerAndNot, TRUE),
    SlashToken |-> OperatorInfo("/", OperatorPrecedence.Multiplicative, FALSE),
    AsteriskToken |-> OperatorInfo("*", OperatorPrecedence.Multiplicative, FALSE),
    PercentToken |-> OperatorInfo("MOD", OperatorPrecedence.Multiplicative, FALSE),
    PlusToken |-> OperatorInfo("+", OperatorPrecedence.Additive, FALSE),
    MinusToken |-> OperatorInfo("-", OperatorPrecedence.Additive, FALSE),
    LessThanToken |-> OperatorInfo("<", OperatorPrecedence.Relational, FALSE),
    GreaterThanToken |-> OperatorInfo(">", OperatorPrecedence.Relational, FALSE),
    LessThanEqualsToken |-> OperatorInfo("<=", OperatorPrecedence.Relational, FALSE),
    GreaterThanEqualsToken |-> OperatorInfo(">=", OperatorPrecedence.Relational, FALSE),
    EqualsEqualsToken |-> OperatorInfo("=", OperatorPrecedence.Equality, FALSE),
    EqualsEqualsEqualsToken |-> OperatorInfo("=", OperatorPrecedence.Equality, FALSE),
    ExclamationEqualsToken |-> OperatorInfo("<>", OperatorPrecedence.Equality, FALSE),
    ExclamationEqualsEqualsToken |-> OperatorInfo("<>", OperatorPrecedence.Equality, FALSE) ]

\* the table's operators that take two operands and are not assignments
BinaryTokens == DOMAIN OPERATOR_MAP \ {"EqualsToken", "ExclamationToken"}

getOperatorInfo(operatorKind) == OPERATOR_MAP[operatorKind]

Identifier(text) == [kind |-> "Identifier", text |-> text]
BinaryExpression(left, op, right) ==
  [kind |-> "BinaryExpression", operatorToken |-> op, left |-> left, right |-> right]
ParenthesizedExpression(e) == [kind |-> "ParenthesizedExpression", expression |-> e]
PrefixUnaryExpression(operator, operand) ==
  [kind |-> "PrefixUnaryExpression", operator |-> operator, operand |-> operand]

\* expr.parent, as far as needsParentheses looks at it
ParentOf(node) == [kind |-> node.kind, operatorToken |-> node.operatorToken]

LogicalChildNeverWrapped(childOp, parentOp) == FALSE

\* the branch of needsParentheses for a child whose operator is AND or OR
LogicalChildNeedsParentheses(childOp, parentOp) ==
  IF parentOp.precedence \in {OperatorPrecedence.LogicalAnd, OperatorPrecedence.LogicalOr}
    THEN childOp.precedence > parentOp.precedence
    ELSE FALSE

needsParentheses(e, parent, parentOp, isRightSide) ==
  IF e.kind = "ParenthesizedExpression" THEN FALSE
  ELSE IF parent.kind = "BinaryExpression" /\ parent.operatorToken = "EqualsToken" /\ isRightSide
    THEN FALSE
  ELSE IF e.kind = "PrefixUnaryExpression"
    THEN getOperatorInfo(e.operator).precedence > parentOp.precedence
  ELSE IF e.kind = "BinaryExpression"
    THEN LET childOp == getOperatorInfo(e.operatorToken) IN
         IF childOp.precedence \in {OperatorPrecedence.LogicalAnd, OperatorPrecedence.LogicalOr}
           THEN LogicalChildNeedsParentheses(childOp, parentOp)
         ELSE IF parentOp.precedence = OperatorPrecedence.Assignment THEN TRUE
         ELSE IF /\ childOp.precedence = parentOp.precedence
                 /\ isRightSide
                 /\ parentOp.isRightAssociative
           THEN TRUE
         ELSE childOp.precedence > parentOp.precedence
  ELSE FALSE

InParentheses(text) == <<"(">> \o text \o <<")">>

(***************************************************************************)
(* Literals, names and assignment operators.  The type checker is a table  *)
(* from a name to the alias its declaration is typed with; a literal       *)
(* keeps what handleLiteral reads of its parent node.                      *)
(***************************************************************************)
COMPOUND_OPERATOR_MAP ==
  [ PlusEqualsToken |-> [operator |-> "+", precedence |-> OperatorPrecedence.Additive],
    MinusEqualsToken |-> [operator |-> "-", precedence |-> OperatorPrecedence.Additive],
    AsteriskEqualsToken |-> [operator |-> "*", precedence |-> OperatorPrecedence.Multiplicative],
    SlashEqualsToken |-> [operator |-> "/", precedence |-> OperatorPrecedence.Multiplicative] ]

\* the declared type alias of the names used in the method bodies
SymbolTypes ==
  [ a |-> "INT", b |-> "INT", c |-> "INT", d |-> "INT", i |-> "INT",
    errorCount |-> "INT", total |-> "DINT", speed |-> "REAL", status |-> "WORD",
    flag |-> "BOOL", done |-> "BOOL", n |-> None,
    hwAny |-> "HW_ANY", hwIo |-> "HW_IO", hwSub |-> "HW_SUBMODULE",
    obAny |-> "OB_ANY", obDelay |-> "OB_DELAY" ]

PropertyAccessExpression(path) == [kind |-> "PropertyAccessExpression", path |-> path]
NumericLiteral(value, parent) == [kind |-> "NumericLiteral", value |-> value, parent |-> parent]
BooleanLiteral(value, parent) ==
  [kind |-> IF value THEN "TrueKeyword" ELSE "FalseKeyword", value |-> value, parent |-> parent]

\* the name a reference expression ends in
ReferencedName(node) ==
  CASE node.kind = "Identifier" -> node.text
    [] node.kind = "PropertyAccessExpression" -> node.path[Len(node.path)]
    [] OTHER -> None

\* checker.getTypeAtLocation(node).aliasSymbol?.escapedName
TypeAliasOf(node) ==
  IF ReferencedName(node) \in DOMAIN SymbolTypes THEN SymbolTypes[ReferencedName(node)] ELSE None

SCLTypeEnum == {"BOOL", "INT", "DINT", "REAL", "WORD"}

getSCLType(node) == IF TypeAliasOf(node) \in SCLTypeEnum THEN TypeAliasOf(node) ELSE None

\* Number.prototype.toString(16).toUpperCase()
RECURSIVE Hex(_)
Hex(k) ==
  LET digit == <<"0", "1", "2", "3", "4", "5", "6", "7", "8", "9", "A", "B", "C", "D", "E", "F">>
  IN IF k < 16 THEN digit[k + 1] ELSE Hex(k \div 16) \o digit[(k % 16) + 1]

RECURSIVE padStart(_, _, _)
padStart(str, length, fill) ==
  IF Len(str) >= length THEN str ELSE padStart(fill \o str, length, fill)

formatHexValue(value, padLength, prefix) == prefix \o "#16#" \o padStart(Hex(value), padLength, "0")

\* a whole number has no '.' in its toString(), so it is written with toFixed(2)
formatRealValue(value) == ToString(value) \o ".00"

\* TypeExtractor.extractRawValue: a boolean or a (whole) number
extractRawValue(node) ==
  IF node.kind = "NumericLiteral"
    THEN [typeof |-> "number", truthy |-> node.value # 0, number |-> node.value]
    ELSE [typeof |-> "boolean", truthy |-> node.value, number |-> 0]

\* TypeExtractor.formatValue
formatValue(value, brandedType) ==
  CASE brandedType \in {"INT", "DINT"} ->
         IF value.typeof = "boolean" THEN (IF value.truthy THEN "true" ELSE "false")
         ELSE ToString(value.number)
    [] brandedType = "REAL" /\ value.typeof = "number" -> formatRealValue(value.number)
    [] brandedType = "WORD" /\ value.typeof = "number" -> formatHexValue(value.number, 4, "W")
    [] brandedType = "BOOL" -> IF value.truthy THEN "TRUE" ELSE "FALSE"
    [] OTHER -> IF value.typeof = "boolean" THEN (IF value.truthy THEN "TRUE" ELSE "FALSE")
                ELSE ToString(value.number)

extractBrandedType(type) == IF type \in SCLTypeEnum THEN type ELSE None

getDefaultValue(type) ==
  CASE extractBrandedType(type) = "WORD" -> "W#16#0000"
    [] extractBrandedType(type) = "BOOL" -> "FALSE"
    [] extractBrandedType(type) \in {"INT", "DINT"} -> "0"
    [] extractBrandedType(type) = "REAL" -> "0.0"
    [] OTHER -> None

isLiteral(node) == node.kind \in {"NumericLiteral", "TrueKeyword", "FalseKeyword"}

\* TypeExtractor.extractValue: the text of a literal for a target type
extractValue(initializer, type) ==
  IF ~isLiteral(initializer) THEN getDefaultValue(type)
  ELSE formatValue(extractRawValue(initializer), extractBrandedType(type))

\* ts.isLiteralExpression: true and false are keywords, not literal expressions
isLiteralExpression(node) == node.kind = "NumericLiteral"

isAssignment(node) ==
  node.operatorToken = "EqualsToken" \/ node.operatorToken \in DOMAIN COMPOUND_OPERATOR_MAP

isMultipleAssignment(node) ==
  /\ node.right.kind = "BinaryExpression"
  /\ \/ node.right.operatorToken = "EqualsToken"
     \/ node.right.operatorToken \in DOMAIN COMPOUND_OPERATOR_MAP


\* generateExpression returns a text or throws: generateExpressionOutcome is
\* what a call of it ends in, generateExpression the text it returns
RECURSIVE generateExpressionOutcome(_)
generateExpression(node) == generateExpressionOutcome(node).text

generateWrappedExpression(e, parent, opInfo, isRight) ==
  LET expStr == generateExpression(e) IN
  IF needsParentheses(e, parent, opInfo, isRight) THEN InParentheses(expStr) ELSE expStr

formatBinaryExpression(node) ==
  LET opInfo == getOperatorInfo(node.operatorToken) IN
  generateWrappedExpression(node.left, ParentOf(node), opInfo, FALSE)
    \o <<opInfo.sclOperator>>
    \o generateWrappedExpression(node.right, ParentOf(node), opInfo, TRUE)

handleIdentifier(node) == <<"#" \o node.text>>

handleParenthesizedExpression(node) ==
  LET inner == generateExpression(node.expression) IN
  IF inner = << >> THEN << >> ELSE InParentheses(inner)

\* segments.join('.')
RECURSIVE JoinPath(_)
JoinPath(segments) ==
  IF Len(segments) = 1 THEN segments[1]
  ELSE segments[1] \o "." \o JoinPath(Tail(segments))

handlePropertyAccess(node) ==
  IF node.path[1] = "this"
    THEN <<"#" \o node.path[Len(node.path)]>>
    ELSE <<"#" \o JoinPath(node.path)>>

\* handleLiteral: a literal under a binary expression takes the type of the
\* left operand, a literal that initializes a variable the type of the
\* variable; under any other parent the text is empty
handleLiteral(node) ==
  CASE node.parent.kind = "BinaryExpression" ->
         LET value == extractValue(node, node.parent.leftType) IN
         IF value = None THEN << >> ELSE <<value>>
    [] node.parent.kind = "VariableDeclaration" ->
         LET sclType == node.parent.type
             value == extractValue(node, sclType)
             defaultValue == getDefaultValue(sclType)
             isForDeclaration == node.parent.inForStatement
         IN IF value = defaultValue /\ ~isForDeclaration THEN << >>
            ELSE IF value \notin {None, ""} THEN <<"#" \o node.parent.name, ":=", value>>
            ELSE << >>
    [] OTHER -> << >>

handleSimpleAssignment(node) ==
  LET left == generateExpression(node.left)
      literalVal == extractValue(node.right, TypeAliasOf(node.left))
      right == generateExpression(node.right)
  IN IF isLiteralExpression(node.right) /\ literalVal \notin {None, ""}
       THEN left \o <<":=", literalVal>>
     ELSE IF left # << >> /\ right # << >> THEN left \o <<":=">> \o right
     ELSE << >>

CombinedAssignmentAsSimple(node) ==
  generateExpression(node.left) \o <<":=">> \o generateExpression(node.right)

handleCombinedAssignment(node) ==
  LET info == COMPOUND_OPERATOR_MAP[node.operatorToken]
      left == generateExpression(node.left)
      literalVal == extractValue(node.right, TypeAliasOf(node.left))
      right == generateExpression(node.right)
  IN IF isLiteralExpression(node.right) /\ literalVal \notin {None, ""}
       THEN left \o <<":=">> \o left \o <<info.operator, literalVal>>
     ELSE IF left # << >> /\ right # << >>
       THEN left \o <<":=">> \o left \o <<info.operator>> \o right
     ELSE << >>

\* the loop of handleMultipleAssignment: one AssignmentOperation is put in
\* front of the list for every binary expression met on the way to the right
RECURSIVE collectAssignments(_, _)
collectAssignments(current, assignments) ==
  LET leftExpr == generateExpression(current.left)
      compound == current.operatorToken \in DOMAIN COMPOUND_OPERATOR_MAP
      operation == [left |-> leftExpr, right |-> << >>,
                    operator |-> IF compound THEN COMPOUND_OPERATOR_MAP[current.operatorToken].operator
                                 ELSE ":=",
                    type |-> IF compound THEN "Combined" ELSE "Simple",
                    leftNode |-> current.left, rightNode |-> current.right]
      added == <<operation>> \o assignments
      rightExpr == generateExpression(current.right)
  IN IF leftExpr = << >> THEN assignments
     ELSE IF current.right.kind # "BinaryExpression"
       THEN IF rightExpr # << >> THEN [added EXCEPT ![1].right = rightExpr] ELSE added
     ELSE collectAssignments(current.right, added)

RECURSIVE chainStatements(_, _, _)
chainStatements(assignments, k, lastResult) ==
  IF k > Len(assignments) THEN << >>
  ELSE LET op == assignments[k]
           statement == IF op.type = "Combined"
                          THEN op.left \o <<":=">> \o op.left \o <<op.operator>> \o lastResult
                          ELSE op.left \o <<":=">> \o lastResult
       IN (IF k = 1 THEN << >> ELSE <<";">>) \o statement
            \o chainStatements(assignments, k + 1, op.left)

\* statements.join(';\n'): the separator is the token ";"
generateAssignmentChain(assignments) == chainStatements(assignments, 1, assignments[1].right)

handleMultipleAssignment(node) == generateAssignmentChain(collectAssignments(node, << >>))

handleAssignment(node) ==
  IF node.operatorToken \in DOMAIN COMPOUND_OPERATOR_MAP THEN handleCombinedAssignment(node)
  ELSE IF isMultipleAssignment(node) THEN handleMultipleAssignment(node)
  ELSE handleSimpleAssignment(node)

handleBinaryExpression(node) ==
  IF isAssignment(node) THEN handleAssignment(node) ELSE formatBinaryExpression(node)

(***************************************************************************)
(* Calls.  The class declarations findClassDeclaration can find, with the  *)
(* methods and parameters the call lowering looks at, and the typed        *)
(* members of the class whose method body is being lowered.                *)
(***************************************************************************)
Parameter(name, output, type) ==
  [name |-> name, isIdentifier |-> TRUE, output |-> output, type |-> type]

\* a parameter written as a binding pattern, ({x, y}: T)
PatternParameter == [name |-> None, isIdentifier |-> FALSE, output |-> FALSE, type |-> "INT"]

ClassDeclarations ==
  [ Calc   |-> [exec |-> [static |-> TRUE,
                          parameters |-> <<Parameter("a", FALSE, "INT"), Parameter("b", FALSE, "REAL"),
                                           Parameter("result", TRUE, "INT")>>]],
    Valve  |-> [exec |-> [static |-> TRUE,
                          parameters |-> <<Parameter("open", FALSE, "BOOL"),
                                           Parameter("pos", TRUE, "INT")>>]],
    Scale  |-> [exec |-> [static |-> TRUE,
                          parameters |-> <<Parameter("raw", FALSE, None), PatternParameter>>]],
    Motor  |-> [exec |-> [static |-> FALSE,
                          parameters |-> <<Parameter("speed", FALSE, "INT"),
                                           Parameter("fault", TRUE, "BOOL")>>]],
    TON    |-> [exec |-> [static |-> FALSE,
                          parameters |-> <<Parameter("IN", FALSE, "BOOL"), Parameter("PT", FALSE, "INT"),
                                           Parameter("Q", TRUE, "BOOL")>>]],
    Helper |-> [reset |-> [static |-> TRUE, parameters |-> << >>]] ]

\* the property declarations of the enclosing class: name -> name of its type
\* node; loose is declared without a type
MemberTypes == [motorA |-> "Motor", timer |-> "TON", ghost |-> "Ghost", loose |-> None]

CallExpression(callee, arguments) ==
  [kind |-> "CallExpression", expression |-> callee, arguments |-> arguments]

\* the result of a lookup that finds no declaration
Undefined == [kind |-> "undefined"]

findClassDeclaration(className) ==
  IF className \in DOMAIN ClassDeclarations THEN ClassDeclarations[className] ELSE Undefined

findMethodInClass(classDecl, methodName, requireStaticModifier) ==
  IF /\ methodName \in DOMAIN classDecl
     /\ (requireStaticModifier => classDecl[methodName].static)
    THEN classDecl[methodName] ELSE Undefined

NotOperandOnly(operand) == operand

\* the branch of handlePrefixUnaryExpression for the operator !
handleNot(operand) == <<"NOT">> \o operand

handlePrefixUnaryExpression(node) ==
  LET operand == generateExpression(node.operand)
      opChar == IF node.operator = "PlusToken" THEN "+" ELSE "-"
      unary == OperatorInfo(opChar, OperatorPrecedence.UnaryOperators, FALSE)
      not == OperatorInfo("NOT", OperatorPrecedence.PowerAndNot, FALSE)
  IN IF operand = << >> THEN << >>
     ELSE IF node.operator \in {"PlusToken", "MinusToken"}
       THEN <<opChar>> \o (IF needsParentheses(node.operand, node, unary, FALSE)
                             THEN InParentheses(operand) ELSE operand)
     ELSE handleNot(IF needsParentheses(node.operand, node, not, FALSE)
                      THEN InParentheses(operand) ELSE operand)

Threw(message) == [text |-> << >>, error |-> message]
Returned(text) == [text |-> text, error |-> None]

\* the error of evaluating param.name, or the decorators, of an undefined param
TypeErrorOfUndefined == <<"TypeError: Cannot read properties of undefined">>

\* `${param.name}`: the name is a node object, not its text
CannotDetermineParameter == <<"Could not determine type for parameter", "[object Object]">>

\* the callback of generateFunctionArgs for the argument at position k
generateFunctionArg(arg, method, k) ==
  LET param == method.parameters[k]
      op == IF param.output THEN "=>" ELSE ":="
      argVal == IF isLiteralExpression(arg) THEN <<extractValue(arg, param.type)>>
                ELSE generateExpression(arg)
  IN IF k > Len(method.parameters) THEN Threw(TypeErrorOfUndefined)
     ELSE IF ~param.isIdentifier THEN Threw(CannotDetermineParameter)
     ELSE IF isLiteralExpression(arg) /\ param.type = None THEN Threw(CannotDetermineParameter)
     ELSE IF argVal = << >> THEN Returned(<< >>)
     ELSE Returned(<<param.name, op>> \o argVal)

\* node.arguments.map(...).filter(Boolean).join(',\n'): the first throw ends
\* the map; an empty binding is filtered out
RECURSIVE generateFunctionArgsFrom(_, _, _)
generateFunctionArgsFrom(node, method, k) ==
  IF k > Len(node.arguments) THEN Returned(<< >>)
  ELSE LET this == generateFunctionArg(node.arguments[k], method, k)
           rest == generateFunctionArgsFrom(node, method, k + 1)
       IN IF this.error # None THEN this
          ELSE IF rest.error # None THEN rest
          ELSE IF this.text = << >> THEN rest
          ELSE IF rest.text = << >> THEN this
          ELSE Returned(this.text \o <<",">> \o rest.text)

generateFunctionArgs(node, method) == generateFunctionArgsFrom(node, method, 1)

Quoted(name) == "\"" \o name \o "\""

generateFunctionCall(node, className) ==
  LET classDecl == findClassDeclaration(className)
      execMethod == findMethodInClass(classDecl, "exec", TRUE)
      args == generateFunctionArgs(node, execMethod)
  IN IF classDecl = Undefined THEN Returned(<< >>)
     ELSE IF execMethod = Undefined THEN Returned(<< >>)
     ELSE IF args.error # None THEN args
     ELSE IF args.text = << >> THEN Returned(<< >>)
     ELSE Returned(<<Quoted(className), "(">> \o args.text \o <<")">>)

\* Class.method(...): a static method of a class
handleStaticCall(node, className, methodName) ==
  LET classDecl == findClassDeclaration(className)
      staticMethod == IF classDecl = Undefined THEN Undefined
                      ELSE findMethodInClass(classDecl, methodName, TRUE)
      isSclInstruction == SclInstructionOf(metadataRegistry, className, "FC")
      args == generateFunctionArgs(node, staticMethod)
  IN IF staticMethod = Undefined
       THEN Threw(<<"Could not find method", methodName, "in class", className>>)
     ELSE IF args.error # None THEN args
     ELSE Returned(<<IF isSclInstruction THEN className ELSE Quoted(className), "(">>
                     \o args.text \o <<")">>)

\* this.member.method(...): a method of the type of an instance member
handleInstanceCall(node, instance, methodName) ==
  LET memberName == instance.path[Len(instance.path)]
      instanceType == IF instance.kind = "PropertyAccessExpression" /\ instance.path[1] = "this"
                         /\ Len(instance.path) = 2 /\ memberName \in DOMAIN MemberTypes
                        THEN MemberTypes[memberName] ELSE None
      classDecl == findClassDeclaration(instanceType)
      methodDecl == findMethodInClass(classDecl, methodName, FALSE)
      args == generateFunctionArgs(node, methodDecl)
      prefix == IF SclInstructionOf(metadataRegistry, instanceType, "FB") THEN "#" ELSE ""
  IN IF instanceType = None
       THEN Threw(<<"Could not determine type for instance">> \o generateExpression(instance))
     ELSE IF classDecl = Undefined
       THEN Threw(<<"Could not find class declaration for type", instanceType>>)
     ELSE IF methodDecl = Undefined
       THEN Threw(<<"Could not find method", methodName, "in class", instanceType>>)
     ELSE IF args.error # None THEN args
     ELSE Returned(<<prefix \o Quoted(memberName), "(">> \o args.text \o <<")">>)

handlePropertyCall(node) ==
  LET path == node.expression.path
      methodName == path[Len(path)]
  IN IF Len(path) = 2 /\ path[1] # "this"
       THEN handleStaticCall(node, path[1], methodName)
       ELSE handleInstanceCall(node, PropertyAccessExpression(SubSeq(path, 1, Len(path) - 1)),
                               methodName)

handleCallExpression(node) ==
  IF node.expression.kind = "PropertyAccessExpression" THEN handlePropertyCall(node)
  ELSE generateFunctionCall(node, node.expression.text)

(***************************************************************************)
(* Validation of assignments.                                              *)
(***************************************************************************)
\* typeInheritanceMap: the parent of a type (the hardware, event and block
\* families)
\* a hierarchy in which HW_IO is below HW_INTERFACE as well
typeInheritanceEntriesWithCycle ==
  << <<"HW_SUBMODULE", "HW_IO">>, <<"HW_INTERFACE", "HW_SUBMODULE">>, <<"HW_IO", "HW_INTERFACE">> >>

\* the [child, parent] pairs the map is constructed from, in their order
typeInheritanceEntries ==
  << <<"HW_IO", "HW_ANY">>, <<"HW_DEVICE", "HW_ANY">>, <<"HW_DPMASTER", "HW_INTERFACE">>,
     <<"HW_DPSLAVE", "HW_DEVICE">>, <<"HW_IOSYSTEM", "HW_ANY">>, <<"HW_SUBMODULE", "HW_IO">>,
     <<"HW_MODULE", "HW_IO">>, <<"HW_INTERFACE", "HW_SUBMODULE">>, <<"HW_IEPORT", "HW_SUBMODULE">>,
     <<"HW_HSC", "HW_SUBMODULE">>, <<"HW_PWM", "HW_SUBMODULE">>, <<"HW_PTO", "HW_SUBMODULE">>,
     <<"PORT", "HW_SUBMODULE">>,
     <<"EVENT_ATT", "EVENT_ANY">>, <<"EVENT_HWINT", "EVENT_ATT">>,
     <<"OB_DELAY", "OB_ANY">>, <<"OB_TOD", "OB_ANY">>, <<"OB_CYCLIC", "OB_ANY">>,
     <<"OB_ATT", "OB_ANY">>, <<"OB_HWINT", "OB_ATT">>, <<"OB_TIMEERROR", "OB_ANY">>,
     <<"OB_STARTUP", "OB_ANY">>,
     <<"CONN_PRG", "CONN_ANY">>, <<"CONN_OUC", "CONN_ANY">>,
     <<"DB_WWW", "DB_ANY">>, <<"DB_DYN", "DB_ANY">> >>

\* new Map(entries): a later entry of a key replaces an earlier one
MapOf(entries) ==
  [key \in {entries[k][1] : k \in DOMAIN entries} |->
     LET last == CHOOSE k \in DOMAIN entries :
                   /\ entries[k][1] = key
                   /\ \A j \in DOMAIN entries : entries[j][1] = key => j <= k
     IN entries[last][2]]

typeInheritanceMap == MapOf(typeInheritanceEntries)

RECURSIVE getTypeAncestors(_)
getTypeAncestors(type) ==
  IF type \in DOMAIN typeInheritanceMap
    THEN <<typeInheritanceMap[type]>> \o getTypeAncestors(typeInheritanceMap[type])
    ELSE << >>

isTypeAssignable(sourceType, targetType) ==
  \/ sourceType = targetType
  \/ targetType \in Range(getTypeAncestors(sourceType))

\* the nodes above an operand of an assignment in a method body, from the
\* parent up to the source file
Ancestors(node) ==
  << [kind |-> "BinaryExpression"], [kind |-> "ExpressionStatement"], [kind |-> "Block"],
     [kind |-> "MethodDeclaration"], [kind |-> "ClassDeclaration"], [kind |-> "SourceFile"] >>

\* ts.isTypeNode, by kind
TypeNodeKinds == {"TypeReference", "ArrayType", "TypeLiteral", "UnionType", "LiteralType"}

\* NodeUtils.findParentOfType(node, ts.isTypeNode): the first ancestor that
\* is a type node, or undefined
findParentTypeNode(node) ==
  LET above == Ancestors(node)
      found == {k \in DOMAIN above : above[k].kind \in TypeNodeKinds}
  IN IF found = {} THEN Undefined ELSE above[CHOOSE k \in found : \A j \in found : k <= j]

\* NodeUtils.extractTypeName of a type node
extractTypeName(typeNode) == IF typeNode.kind = "TypeReference" THEN typeNode.typeName ELSE None

\* DATA_TYPE_CONFIG: the result of the type's validateAssignment; WSTRING
\* has none and falls back to the equality of the type names
DataTypeAccepts(leftType, rightType, left, right) ==
  CASE leftType = "STRUCT" -> ReferencedName(left) = ReferencedName(right)
    [] leftType = "ARRAY" -> FALSE
    [] leftType = "STRING" -> FALSE
    [] leftType = "ANY" -> FALSE
    [] leftType \in {"REF_TO", "WSTRING"} -> leftType = rightType

\* validateAssignment: the error it throws, or none.  Without a type node
\* above both operands there is nothing to validate.
validateAssignment(left, right) ==
  LET leftTypeNode == findParentTypeNode(left)
      rightTypeNode == findParentTypeNode(right)
      leftType == extractTypeName(leftTypeNode)
      rightType == extractTypeName(rightTypeNode)
  IN IF leftTypeNode = Undefined \/ rightTypeNode = Undefined THEN None
     ELSE IF leftType = None \/ rightType = None THEN None
     ELSE IF leftType \notin {"STRUCT", "ARRAY", "STRING", "WSTRING", "ANY", "REF_TO"} THEN None
     ELSE IF ~DataTypeAccepts(leftType, rightType, left, right)
       THEN <<"Invalid assignment: Cannot assign", rightType, "to", leftType>>
     ELSE None

\* the dispatch of generateExpression on the kind of the node; an assignment
\* is validated by its handler before its text is built
generateExpressionOutcome(node) ==
  CASE node.kind = "Identifier" -> Returned(handleIdentifier(node))
    [] node.kind \in {"NumericLiteral", "TrueKeyword", "FalseKeyword"} -> Returned(handleLiteral(node))
    [] node.kind = "PropertyAccessExpression" -> Returned(handlePropertyAccess(node))
    [] node.kind = "BinaryExpression" ->
         [text |-> handleBinaryExpression(node),
          error |-> IF isAssignment(node) THEN validateAssignment(node.left, node.right) ELSE None]
    [] node.kind = "CallExpression" -> handleCallExpression(node)
    [] node.kind = "PrefixUnaryExpression" -> Returned(handlePrefixUnaryExpression(node))
    [] node.kind = "ParenthesizedExpression" -> Returned(handleParenthesizedExpression(node))

(***************************************************************************)
(* The parser in front of the generator.  The generator only ever sees     *)
(* trees ts.createProgram built from text, so the binary operators nest    *)
(* by TypeScript's own precedence, and a looser operator sits under a      *)
(* tighter one only inside a ParenthesizedExpression.                      *)
(***************************************************************************)
TsBinaryPrecedence ==
  [ BarBarToken |-> 5, AmpersandAmpersandToken |-> 6, BarToken |-> 7, CaretToken |-> 8,
    AmpersandToken |-> 9,
    EqualsEqualsToken |-> 10, EqualsEqualsEqualsToken |-> 10,
    ExclamationEqualsToken |-> 10, ExclamationEqualsEqualsToken |-> 10,
    LessThanToken |-> 11, GreaterThanToken |-> 11,
    LessThanEqualsToken |-> 11, GreaterThanEqualsToken |-> 11,
    PlusToken |-> 13, MinusToken |-> 13,
    SlashToken |-> 14, AsteriskToken |-> 14, PercentToken |-> 14,
    AsteriskAsteriskToken |-> 15 ]

\* the source texts  a op1 b op2 c,  (a op1 b) op2 c  and  a op1 (b op2 c)
Grouping == {"none", "left", "right"}
SourceTexts == [op1 : BinaryTokens, op2 : BinaryTokens, group : Grouping]

parseExpression(src) ==
  LET a == Identifier("a")
      b == Identifier("b")
      c == Identifier("c")
      first == BinaryExpression(a, src.op1, b)
      second == BinaryExpression(b, src.op2, c)
      secondBindsTighter ==
        \/ TsBinaryPrecedence[src.op2] > TsBinaryPrecedence[src.op1]
        \/ /\ TsBinaryPrecedence[src.op2] = TsBinaryPrecedence[src.op1]
           /\ src.op1 = "AsteriskAsteriskToken"
  IN CASE src.group = "left" ->
            BinaryExpression(ParenthesizedExpression(first), src.op2, c)
       [] src.group = "right" ->
            BinaryExpression(a, src.op1, ParenthesizedExpression(second))
       [] src.group = "none" /\ secondBindsTighter ->
            BinaryExpression(a, src.op1, second)
       [] OTHER ->
            BinaryExpression(first, src.op2, c)

InitLower ==
  /\ imports = CHOOSE l \in Layouts : TRUE
  /\ status = [f \in Files |-> "ok"]
  /\ genFails = {}
  /\ InitCompiler
  /\ source = None
  /\ expr \in {parseExpression(src) : src \in SourceTexts}
  /\ lowered = None
  /\ thrown = None

\* SCLExpressionGenerator.generateExpression on the parsed expression
LowerExpression ==
  /\ lowered = None
  /\ thrown = None
  /\ LET outcome == generateExpressionOutcome(expr)
     IN /\ thrown' = outcome.error
        /\ lowered' = IF outcome.error = None THEN outcome.text ELSE None
  /\ UNCHANGED <<world, source, expr, processedFiles, metadataRegistry, frames, collectCount,
                 calls, cats, jobs, artifacts, writes, lateRegistered, log, registerCount>>

NextLower == LowerExpression

SpecLower == InitLower /\ [][NextLower]_vars

\* the operand of the outermost operator on the given side, source parentheses removed
Operand(side) ==
  LET o == IF side = "left" THEN expr.left ELSE expr.right IN
  IF o.kind = "ParenthesizedExpression" THEN o.expression ELSE o

\* the operand on that side is written in the source without parentheses of its own
DirectOperand(side) ==
  (IF side = "left" THEN expr.left ELSE expr.right).kind = "BinaryExpression"

\* outer(inner(a, b), c) or outer(a, inner(b, c)) has been lowered
LoweredNested(side) ==
  /\ lowered # None
  /\ expr.kind = "BinaryExpression"
  /\ Operand(side).kind = "BinaryExpression"

OuterInfo == getOperatorInfo(expr.operatorToken)
InnerInfo(side) == getOperatorInfo(Operand(side).operatorToken)

\* the text of the inner operation stands between parentheses in the lowered text
InnerParenthesized(side) ==
  /\ Len(lowered) = 7
  /\ IF side = "left"
       THEN lowered = InParentheses(SubSeq(lowered, 2, 4)) \o SubSeq(lowered, 6, 7)
       ELSE lowered = SubSeq(lowered, 1, 2) \o InParentheses(SubSeq(lowered, 4, 6))

InnerBare(side) ==
  /\ Len(lowered) = 5
  /\ \A i \in 1..5 : lowered[i] \notin {"(", ")"}

MaxLinks == 3

AssignmentTokens == {"EqualsToken"} \cup DOMAIN COMPOUND_OPERATOR_MAP

\* the value at the right end: the name d, a number, d + 1 and (d + 1)
ValueForms ==
  {[form |-> "name"], [form |-> "sum"], [form |-> "groupedSum"]}
    \cup {[form |-> "literal", value |-> k] : k \in {0, 1, 10}}

ChainTargets == <<"a", "b", "c", "i">>

ChainSources ==
  {[form |-> "chain", ops |-> ops, value |-> v] :
     ops \in UNION {[1..k -> AssignmentTokens] : k \in 2..MaxLinks}, v \in ValueForms}

TargetRefs ==
  {Identifier(x) : x \in {"a", "speed", "status", "n"}}
    \cup {PropertyAccessExpression(<<"this", x>>) : x \in {"errorCount", "total"}}

SingleSources ==
  {[form |-> "single", target |-> t, op |-> op, value |-> v] :
     t \in TargetRefs, op \in AssignmentTokens, v \in ValueForms}

\* the node of the value; a literal's parent is the binary expression it
\* stands in, whose left operand has the type leftType
parseValue(v, leftType) ==
  LET sum == BinaryExpression(Identifier("d"), "PlusToken",
               NumericLiteral(1, [kind |-> "BinaryExpression", leftType |-> getSCLType(Identifier("d"))]))
  IN CASE v.form = "name" -> Identifier("d")
       [] v.form = "literal" -> NumericLiteral(v.value, [kind |-> "BinaryExpression", leftType |-> leftType])
       [] v.form = "sum" -> sum
       [] v.form = "groupedSum" -> ParenthesizedExpression(sum)

\* assignment operators are right-associative:  t1 op (t2 op (... value))
RECURSIVE parseChain(_, _, _)
parseChain(ops, k, v) ==
  LET target == Identifier(ChainTargets[k]) IN
  BinaryExpression(target, ops[k],
    IF k = Len(ops) THEN parseValue(v, getSCLType(target)) ELSE parseChain(ops, k + 1, v))

parseAssignment(src) ==
  IF src.form = "chain" THEN parseChain(src.ops, 1, src.value)
  ELSE BinaryExpression(src.target, src.op, parseValue(src.value, getSCLType(src.target)))

InitAssign ==
  /\ imports = CHOOSE l \in Layouts : TRUE
  /\ status = [f \in Files |-> "ok"]
  /\ genFails = {}
  /\ InitCompiler
  /\ source \in ChainSources \cup SingleSources
  /\ expr = parseAssignment(source)
  /\ lowered = None
  /\ thrown = None

SpecAssign == InitAssign /\ [][NextLower]_vars

\* what the value reads in SCL when it is assigned to a target of the type
ValueText(v, type) ==
  CASE v.form = "name" -> <<"#d">>
    [] v.form = "sum" -> <<"#d", "+", "1">>
    [] v.form = "groupedSum" -> <<"(", "#d", "+", "1", ")">>
    [] v.form = "literal" ->
         << CASE type = "REAL" -> [k \in {0, 1, 10} |-> CASE k = 0 -> "0.00" [] k = 1 -> "1.00"
                                                           [] k = 10 -> "10.00"][v.value]
              [] type = "WORD" -> [k \in {0, 1, 10} |-> CASE k = 0 -> "W#16#0000" [] k = 1 -> "W#16#0001"
                                                           [] k = 10 -> "W#16#000A"][v.value]
              [] OTHER -> [k \in {0, 1, 10} |-> CASE k = 0 -> "0" [] k = 1 -> "1"
                                                   [] k = 10 -> "10"][v.value] >>

OperatorText(op) ==
  CASE op = "PlusEqualsToken" -> "+" [] op = "MinusEqualsToken" -> "-"
    [] op = "AsteriskEqualsToken" -> "*" [] op = "SlashEqualsToken" -> "/"

\* target := rhs, or target := target op rhs for a compound link
LinkText(target, op, rhs) ==
  IF op = "EqualsToken" THEN <<target, ":=">> \o rhs
  ELSE <<target, ":=", target, OperatorText(op)>> \o rhs

\* the statements of a chain, the innermost link first
RECURSIVE ChainText(_, _, _)
ChainText(ops, k, v) ==
  LET target == "#" \o ChainTargets[k] IN
  IF k = Len(ops) THEN LinkText(target, ops[k], ValueText(v, SymbolTypes[ChainTargets[k]]))
  ELSE ChainText(ops, k + 1, v) \o <<";">>
         \o LinkText(target, ops[k], <<"#" \o ChainTargets[k + 1]>>)

Statements(text) == Cardinality({k \in DOMAIN text : text[k] = ";"}) + 1

\* C11: a chained assignment lowers to one assignment statement per link,
\* the innermost link first: the innermost link is assigned the lowered
\* value, every other link the target of the link to its right.
C11_ChainDecomposition ==
  lowered # None /\ source.form = "chain" =>
    /\ Statements(lowered) = Len(source.ops)
    /\ lowered = ChainText(source.ops, 1, source.value)

\* C12: a compound assignment  lhs op= rhs  with op one of + - * /  lowers
\* to the one statement  lhs := lhs op rhs.
C12_CompoundAssignment ==
  ( /\ lowered # None
    /\ source.form = "single"
    /\ source.op \in DOMAIN COMPOUND_OPERATOR_MAP ) =>
      /\ Statements(lowered) = 1
      /\ lowered = LinkText("#" \o ReferencedName(source.target), source.op,
                            ValueText(source.value, TypeAliasOf(source.target)))

\* this.errorCount += 1  was lowered to  #errorCount := #errorCount + 1
C12_Witness ==
  /\ source = [form |-> "single", target |-> PropertyAccessExpression(<<"this", "errorCount">>),
               op |-> "PlusEqualsToken", value |-> [form |-> "literal", value |-> 1]]
  /\ lowered # None
  /\ lowered = <<"#errorCount", ":=", "#errorCount", "+", "1">>

(***************************************************************************)
(* Calls: the call expressions that are lowered.                           *)
(***************************************************************************)
MaxArgs == 3

ArgForms == {"name", "literal", "true", "sum"}

\* Foo(...), Foo.m(...) and this.x.m(...)
Callees ==
  {<<"Calc">>, <<"Valve">>, <<"Scale">>, <<"Helper">>, <<"Unknown">>,
   <<"Calc", "exec">>, <<"Valve", "exec">>, <<"Scale", "exec">>, <<"Calc", "missing">>,
   <<"Motor", "exec">>, <<"Unknown", "exec">>,
   <<"this", "motorA", "exec">>, <<"this", "timer", "exec">>, <<"this", "motorA", "missing">>,
   <<"this", "loose", "exec">>, <<"this", "ghost", "exec">>, <<"this", "absent", "exec">>}

CallSources ==
  {[form |-> "call", callee |-> c, args |-> a] :
     c \in Callees, a \in UNION {[1..n -> ArgForms] : n \in 0..MaxArgs}}

parseArgument(form) ==
  LET call == [kind |-> "CallExpression"] IN
  CASE form = "name" -> Identifier("d")
    [] form = "literal" -> NumericLiteral(1, call)
    [] form = "true" -> BooleanLiteral(TRUE, call)
    [] form = "sum" -> parseValue([form |-> "sum"], None)

parseCall(src) ==
  CallExpression(IF Len(src.callee) = 1 THEN Identifier(src.callee[1])
                 ELSE PropertyAccessExpression(src.callee),
                 [k \in DOMAIN src.args |-> parseArgument(src.args[k])])

\* the registry after the collection phase of a program that imports the
\* system instruction
RegistryOf(ds) ==
  [k \in Keys |-> IF \E d \in ds : KeyOf(d) = k THEN CHOOSE d \in ds : KeyOf(d) = k ELSE None]

InitCall ==
  /\ imports = CHOOSE l \in Layouts : TRUE
  /\ status = [f \in Files |-> "ok"]
  /\ genFails = {}
  /\ processedFiles = {}
  /\ metadataRegistry \in {RegistryOf({}), RegistryOf({"kTON"})}
  /\ frames = [p \in Paths |-> NoFrame]
  /\ collectCount = [f \in Files |-> 0]
  /\ calls = [c \in Calls |-> IdleCall]
  /\ cats = [c \in Calls |-> [cat \in SCLCategory |-> NoCat]]
  /\ jobs = << >>
  /\ artifacts = << >>
  /\ writes = {}
  /\ lateRegistered = {}
  /\ log = {}
  /\ registerCount = 0
  /\ source \in CallSources
  /\ expr = parseCall(source)
  /\ lowered = None
  /\ thrown = None

SpecCall == InitCall /\ [][NextLower]_vars

\* the method the callee of the source resolves to, if it resolves
CalleeClass ==
  CASE Len(source.callee) = 3 ->
         IF source.callee[2] \in DOMAIN MemberTypes THEN MemberTypes[source.callee[2]] ELSE None
    [] OTHER -> source.callee[1]

CalleeMethod == IF Len(source.callee) = 1 THEN "exec" ELSE source.callee[Len(source.callee)]

CalleeResolves ==
  /\ CalleeClass \in DOMAIN ClassDeclarations
  /\ CalleeMethod \in DOMAIN ClassDeclarations[CalleeClass]
  /\ ClassDeclarations[CalleeClass][CalleeMethod].static = (Len(source.callee) < 3)

CalleeParameters == ClassDeclarations[CalleeClass][CalleeMethod].parameters

ParametersResolve ==
  /\ Len(source.args) <= Len(CalleeParameters)
  /\ \A k \in DOMAIN source.args :
       CalleeParameters[k].isIdentifier /\ CalleeParameters[k].type # None

\* the name and the operator of every binding of a call text, in order
RECURSIVE BindingsFrom(_, _)
BindingsFrom(text, k) ==
  IF k > Len(text) THEN << >>
  ELSE IF text[k] \in {":=", "=>"} THEN <<text[k - 1], text[k]>> \o BindingsFrom(text, k + 1)
  ELSE BindingsFrom(text, k + 1)

RECURSIVE DeclaredBindings(_)
DeclaredBindings(k) ==
  IF k > Len(source.args) THEN << >>
  ELSE <<CalleeParameters[k].name, IF CalleeParameters[k].output THEN "=>" ELSE ":=">>
         \o DeclaredBindings(k + 1)

\* C13: a call to a named unit lowers to a call in which every source
\* argument is bound to the declared name of the parameter at its position,
\* with := for an input parameter and => for an output parameter.
C13_NamedBinding ==
  ( /\ source.form = "call" /\ (lowered # None \/ thrown # None)
    /\ source.args # << >>
    /\ CalleeResolves /\ ParametersResolve )
  => /\ thrown = None
     /\ lowered # None
     /\ BindingsFrom(lowered, 1) = DeclaredBindings(1)

\* Failures of resolution: of the callee, of a parameter, of the instance type.
UnresolvedSymbol ==
  CASE Len(source.callee) = 3 /\ CalleeClass = None -> source.callee[2]
    [] CalleeClass \notin DOMAIN ClassDeclarations -> CalleeClass
    [] ~CalleeResolves -> CalleeMethod
    [] OTHER -> None

\* C14: when the callee, a parameter or the type of the instance cannot be
\* resolved, lowering the call throws an error that names the unresolved
\* symbol.
C14_UnresolvedIsFatal ==
  ( /\ source.form = "call" /\ (lowered # None \/ thrown # None)
    /\ UnresolvedSymbol # None )
  => /\ thrown # None
     /\ \E k \in DOMAIN thrown : thrown[k] \in {UnresolvedSymbol, "#" \o UnresolvedSymbol}

(***************************************************************************)
(* Statements.  SCLStatementGenerator lowers one statement of a method     *)
(* body; the text is the sequence of its tokens without white space.       *)
(***************************************************************************)
\* the constructor argument of the statement generator
currentFunctionName == source.procedure

ReturnStatement(expression) == [kind |-> "ReturnStatement", expression |-> expression]
ExpressionStatement(expression) == [kind |-> "ExpressionStatement", expression |-> expression]
BreakStatement == [kind |-> "BreakStatement"]
Block(statements) == [kind |-> "Block", statements |-> statements]
VariableStatement(declarations) == [kind |-> "VariableStatement", declarations |-> declarations]
DoStatement(statement, expression) ==
  [kind |-> "DoStatement", statement |-> statement, expression |-> expression]
ForStatement(initializer, condition, incrementor, statement) ==
  [kind |-> "ForStatement", initializer |-> initializer, condition |-> condition,
   incrementor |-> incrementor, statement |-> statement]
PostfixUnaryExpression(operand, operator) ==
  [kind |-> "PostfixUnaryExpression", operator |-> operator, operand |-> operand]

\* a part of a statement that the source leaves out
Absent == [kind |-> "absent"]

\* generateExpression(undefined) is ''
generateOptionalExpression(node) == IF node = Absent THEN << >> ELSE generateExpression(node)

handleReturnStatement(node) ==
  IF node.expression # Absent
    THEN <<"#" \o currentFunctionName, ":=">> \o generateExpression(node.expression) \o <<";">>
    ELSE << >>

handleExpressionStatement(node) == generateExpression(node.expression) \o <<";">>

handleBreakStatement(node) == <<"EXIT", ";">>

handleVariableStatement(node) ==
  LET RECURSIVE parts(_)
      parts(k) ==
        IF k > Len(node.declarations) THEN << >>
        ELSE LET statement == generateOptionalExpression(node.declarations[k].initializer)
             IN (IF statement # << >> THEN statement \o <<";">> ELSE << >>) \o parts(k + 1)
  IN parts(1)

\* the step the incrementor gives: i += n, i -= n, i-- and --i
IncrementorStep(incrementor) ==
  IF incrementor = Absent THEN [step |-> "1", isDescending |-> FALSE]
  ELSE IF incrementor.kind = "BinaryExpression"
    THEN IF incrementor.operatorToken = "PlusEqualsToken" /\ incrementor.right.kind = "NumericLiteral"
           THEN [step |-> ToString(incrementor.right.value), isDescending |-> FALSE]
         ELSE IF incrementor.operatorToken = "MinusEqualsToken"
                 /\ incrementor.right.kind = "NumericLiteral"
           THEN [step |-> "-" \o ToString(incrementor.right.value), isDescending |-> TRUE]
         ELSE [step |-> "1", isDescending |-> FALSE]
  ELSE IF incrementor.kind \in {"PostfixUnaryExpression", "PrefixUnaryExpression"}
          /\ incrementor.operator = "MinusMinusToken"
    THEN [step |-> "-1", isDescending |-> TRUE]
  ELSE [step |-> "1", isDescending |-> FALSE]

NoInference(node, given) == given.step

\* the inference of a descending loop from a literal initializer and bound
InferredStep(node, given) ==
  LET literalInit == node.initializer # Absent /\ node.initializer.kind = "NumericLiteral"
      literalCond == node.condition.kind = "BinaryExpression"
                       /\ node.condition.right.kind = "NumericLiteral"
  IN IF /\ ~given.isDescending
        /\ node.initializer # Absent /\ node.condition # Absent
        /\ literalInit /\ literalCond
        /\ node.initializer.value > node.condition.right.value
        /\ given.step = "1"
       THEN "-1" ELSE given.step

RECURSIVE generateStatement(_)
handleBlock(node) ==
  LET RECURSIVE join(_)
      join(k) == IF k > Len(node.statements) THEN << >>
                 ELSE generateStatement(node.statements[k]) \o join(k + 1)
  IN join(1)

generateBranch(statement) == generateStatement(statement)

handleForStatement(node) ==
  LET initValue == generateOptionalExpression(node.initializer)
      endValue == IF node.condition # Absent /\ node.condition.kind = "BinaryExpression"
                    THEN generateExpression(node.condition.right) ELSE << >>
      step == InferredStep(node, IncrementorStep(node.incrementor))
      body == generateBranch(node.statement)
  IN <<"FOR">> \o initValue \o <<"TO">> \o endValue
       \o (IF step = "1" THEN << >> ELSE <<"BY", step>>)
       \o <<"DO">> \o body \o <<"END_FOR", ";">>

\* condition.replace(/!/g, 'NOT ')
ReplaceExclamation(text) == [k \in DOMAIN text |-> IF text[k] = "!" THEN "NOT" ELSE text[k]]

handleDoWhileStatement(node) ==
  LET condition == generateExpression(node.expression)
      body == generateBranch(node.statement)
      formattedCondition == ReplaceExclamation(condition)
  IN <<"REPEAT">> \o body \o <<"UNTIL">> \o formattedCondition \o <<"END_REPEAT", ";">>

generateStatement(node) ==
  CASE node.kind = "ExpressionStatement" -> handleExpressionStatement(node)
    [] node.kind = "ReturnStatement" -> handleReturnStatement(node)
    [] node.kind = "Block" -> handleBlock(node)
    [] node.kind = "ForStatement" -> handleForStatement(node)
    [] node.kind = "DoStatement" -> handleDoWhileStatement(node)
    [] node.kind = "BreakStatement" -> handleBreakStatement(node)
    [] node.kind = "VariableStatement" -> handleVariableStatement(node)

\* SCLStatementGenerator.generateStatement on the parsed statement
LowerStatement ==
  /\ lowered = None
  /\ thrown = None
  /\ lowered' = generateStatement(expr)
  /\ UNCHANGED <<world, source, expr, thrown, processedFiles, metadataRegistry, frames,
                 collectCount, calls, cats, jobs, artifacts, writes, lateRegistered, log,
                 registerCount>>

NextStatement == LowerStatement

(***************************************************************************)
(* The statements that are lowered.                                        *)
(***************************************************************************)
MaxStep == 2

Procedures == {"DriveCalculateSpeed", "Scale"}

\* loop bodies:  {}   { break; }   { a = d; }
Bodies == {"empty", "break", "assign"}

parseBody(b) ==
  CASE b = "empty" -> Block(<< >>)
    [] b = "break" -> Block(<<BreakStatement>>)
    [] b = "assign" -> Block(<<ExpressionStatement(
                                 BinaryExpression(Identifier("a"), "EqualsToken", Identifier("d")))>>)

\* return;  return d;  return d + 1;  return (d + 1);  return 0;  return 10;
ReturnValues ==
  {[form |-> "none"], [form |-> "name"], [form |-> "sum"], [form |-> "groupedSum"]}
    \cup {[form |-> "literal", value |-> k] : k \in {0, 10}}

ReturnSources == {[form |-> "return", procedure |-> p, value |-> v] : p \in Procedures, v \in ReturnValues}

parseReturn(src) ==
  ReturnStatement(
    CASE src.value.form = "none" -> Absent
      [] src.value.form = "literal" -> NumericLiteral(src.value.value, [kind |-> "ReturnStatement"])
      [] OTHER -> parseValue(src.value, None))

\* for (let i = <init>; i <cmp> <bound>; <increment>) <body>
LoopEnds == {[form |-> "literal", value |-> k] : k \in {0, 10}} \cup {[form |-> "name"]}

Increments ==
  {[form |-> f] : f \in {"none", "i++", "++i", "i--", "--i"}}
    \cup {[form |-> f, n |-> n] : f \in {"+=", "-="}, n \in 1..MaxStep}

Comparisons ==
  {"LessThanToken", "LessThanEqualsToken", "GreaterThanToken", "GreaterThanEqualsToken"}

ForSources ==
  {[form |-> "for", procedure |-> "Scale", init |-> i, cmp |-> cmp, bound |-> b, increment |-> inc,
    body |-> body] :
     i \in LoopEnds, cmp \in Comparisons, b \in LoopEnds, inc \in Increments, body \in Bodies}

parseIncrement(inc) ==
  LET i == Identifier("i")
      literal(n) == NumericLiteral(n, [kind |-> "BinaryExpression", leftType |-> getSCLType(i)])
  IN CASE inc.form = "none" -> Absent
       [] inc.form = "i++" -> PostfixUnaryExpression(i, "PlusPlusToken")
       [] inc.form = "i--" -> PostfixUnaryExpression(i, "MinusMinusToken")
       [] inc.form = "++i" -> PrefixUnaryExpression("PlusPlusToken", i)
       [] inc.form = "--i" -> PrefixUnaryExpression("MinusMinusToken", i)
       [] inc.form = "+=" -> BinaryExpression(i, "PlusEqualsToken", literal(inc.n))
       [] inc.form = "-=" -> BinaryExpression(i, "MinusEqualsToken", literal(inc.n))

parseFor(src) ==
  LET i == Identifier("i")
      declaration == [kind |-> "VariableDeclaration", name |-> "i", type |-> getSCLType(i),
                      inForStatement |-> TRUE]
      comparison == [kind |-> "BinaryExpression", leftType |-> getSCLType(i)]
  IN ForStatement(
       IF src.init.form = "literal" THEN NumericLiteral(src.init.value, declaration)
       ELSE Identifier("d"),
       BinaryExpression(i, src.cmp,
         IF src.bound.form = "literal" THEN NumericLiteral(src.bound.value, comparison)
         ELSE Identifier("d")),
       parseIncrement(src.increment),
       parseBody(src.body))

\* do <body> while (<condition>);
Conditions == {"flag", "!flag", "!!flag", "!(a > b)", "!flag && done", "a !== b", "!this.flag"}

DoSources ==
  {[form |-> "do", procedure |-> "Scale", condition |-> c, body |-> b] : c \in Conditions, b \in Bodies}

parseCondition(c) ==
  LET Not(e) == PrefixUnaryExpression("ExclamationToken", e)
      flag == Identifier("flag")
  IN CASE c = "flag" -> flag
       [] c = "!flag" -> Not(flag)
       [] c = "!!flag" -> Not(Not(flag))
       [] c = "!(a > b)" -> Not(ParenthesizedExpression(
                                  BinaryExpression(Identifier("a"), "GreaterThanToken", Identifier("b"))))
       [] c = "!flag && done" -> BinaryExpression(Not(flag), "AmpersandAmpersandToken", Identifier("done"))
       [] c = "a !== b" -> BinaryExpression(Identifier("a"), "ExclamationEqualsEqualsToken", Identifier("b"))
       [] c = "!this.flag" -> Not(PropertyAccessExpression(<<"this", "flag">>))

parseDo(src) == DoStatement(parseBody(src.body), parseCondition(src.condition))

\* let x: <type> = <literal>;
DeclarationSources ==
  {[form |-> "declaration", procedure |-> "Scale", type |-> t, value |-> v] :
     t \in SCLTypeEnum \cup {None},
     v \in {[form |-> "number", number |-> k] : k \in {0, 1, 10}}
            \cup {[form |-> "boolean", truth |-> b] : b \in BOOLEAN}}

parseDeclaration(src) ==
  LET declaration == [kind |-> "VariableDeclaration", name |-> "x", type |-> src.type,
                      inForStatement |-> FALSE]
  IN VariableStatement(<<[initializer |->
       IF src.value.form = "boolean" THEN BooleanLiteral(src.value.truth, declaration)
       ELSE NumericLiteral(src.value.number, declaration)]>>)

StatementSources == ReturnSources \cup ForSources \cup DoSources \cup DeclarationSources

parseStatement(src) ==
  CASE src.form = "return" -> parseReturn(src)
    [] src.form = "for" -> parseFor(src)
    [] src.form = "do" -> parseDo(src)
    [] src.form = "declaration" -> parseDeclaration(src)

InitStatement ==
  /\ imports = CHOOSE l \in Layouts : TRUE
  /\ status = [f \in Files |-> "ok"]
  /\ genFails = {}
  /\ InitCompiler
  /\ source \in StatementSources
  /\ expr = parseStatement(source)
  /\ lowered = None
  /\ thrown = None

SpecStatement == InitStatement /\ [][NextStatement]_vars

\* C15: a return statement with a value lowers to the assignment of the
\* lowered value to the result variable named after the procedure,
\* #<procedure> := <value>; and a return statement without a value lowers
\* to no text.
C15_ReturnAssignsResult ==
  lowered # None /\ source.form = "return" =>
    IF source.value.form = "none" THEN lowered = << >>
    ELSE lowered = <<"#" \o source.procedure, ":=">> \o ValueText(source.value, "INT") \o <<";">>

\* the step after BY in the text of a loop, or none
ByClause(text) ==
  IF \E k \in DOMAIN text : text[k] = "BY"
    THEN text[(CHOOSE k \in DOMAIN text : text[k] = "BY") + 1] ELSE None

\* the step the increment of the source states
StatedStep ==
  LET inc == source.increment IN
  CASE inc.form \in {"none", "i++", "++i"} -> 1
    [] inc.form \in {"i--", "--i"} -> -1
    [] inc.form = "+=" -> inc.n
    [] inc.form = "-=" -> 0 - inc.n

GivesNoDirection == source.increment.form \in {"none", "i++", "++i", "+="}

LoopStep ==
  IF /\ GivesNoDirection
     /\ source.init.form = "literal" /\ source.bound.form = "literal"
     /\ source.init.value > source.bound.value
     /\ StatedStep = 1
    THEN -1 ELSE StatedStep

\* C16: the step of a lowered for-loop is 1 by default, -1 for a decrement,
\* n or -n for += n or -= n, and -1 when the increment gives no direction,
\* initializer and bound are integer literals with initializer > bound and
\* the step is still 1; the BY clause is left out exactly when the step is 1
\* and otherwise states the step.
C16_LoopStep ==
  lowered # None /\ source.form = "for" =>
    /\ lowered[1] = "FOR"
    /\ IF LoopStep = 1 THEN ByClause(lowered) = None
       ELSE ByClause(lowered) = ToString(LoopStep)

\* for (let i = 10; i < 0; i++) has been lowered with BY -1
C16_Witness ==
  /\ lowered # None /\ source.form = "for"
  /\ source.init = [form |-> "literal", value |-> 10]
  /\ source.bound = [form |-> "literal", value |-> 0]
  /\ source.increment.form = "i++"
  /\ ByClause(lowered) = "-1"

\* the tokens of the UNTIL clause of a lowered do-while loop
UntilClause(text) ==
  LET u == CHOOSE k \in DOMAIN text : text[k] = "UNTIL"
      e == CHOOSE k \in DOMAIN text : text[k] = "END_REPEAT"
  IN SubSeq(text, u + 1, e - 1)

\* what each condition of the sources reads in SCL
ConditionText(c) ==
  CASE c = "flag" -> <<"#flag">>
    [] c = "!flag" -> <<"NOT", "#flag">>
    [] c = "!!flag" -> <<"NOT", "NOT", "#flag">>
    [] c = "!(a > b)" -> <<"NOT", "(", "#a", ">", "#b", ")">>
    [] c = "!flag && done" -> <<"NOT", "#flag", "AND", "#done">>
    [] c = "a !== b" -> <<"#a", "<>", "#b">>
    [] c = "!this.flag" -> <<"NOT", "#flag">>

InitializedToDefault ==
  \/ source.type = "BOOL" /\ source.value = [form |-> "boolean", truth |-> FALSE]
  \/ source.type \in {"INT", "DINT", "REAL", "WORD"} /\ source.value = [form |-> "number", number |-> 0]

\* C18: a literal initializer equal to the default value of its type gives
\* no initialization statement, except as the initializer of a for-loop,
\* where it is always written.
C18_DefaultInitializerOmitted ==
  /\ lowered # None /\ source.form = "declaration" /\ InitializedToDefault => lowered = << >>
  /\ lowered # None /\ source.form = "for" /\ source.init.form = "literal" =>
       SubSeq(lowered, 2, 4) = <<"#i", ":=", ToString(source.init.value)>>

(***************************************************************************)
(* Assignments between names of declared types.                            *)
(***************************************************************************)
TypedNames == {"hwAny", "hwIo", "hwSub", "obAny", "obDelay", "a", "speed"}

\* t = v;  and  this.t = v;
TypedSources ==
  {[form |-> "typed", target |-> t, member |-> m, value |-> v] :
     t \in TypedNames, m \in BOOLEAN, v \in TypedNames}

parseTyped(src) ==
  BinaryExpression(IF src.member THEN PropertyAccessExpression(<<"this", src.target>>)
                   ELSE Identifier(src.target),
                   "EqualsToken", Identifier(src.value))

InitTyped ==
  /\ imports = CHOOSE l \in Layouts : TRUE
  /\ status = [f \in Files |-> "ok"]
  /\ genFails = {}
  /\ InitCompiler
  /\ source \in TypedSources
  /\ expr = parseTyped(source)
  /\ lowered = None
  /\ thrown = None

SpecTyped == InitTyped /\ [][NextLower]_vars

\* C19: lowering an assignment of a value of declared type A to a field of
\* declared type B, where B is neither A nor an ancestor of A, throws a
\* type-mismatch error; an assignment of a type to itself or to one of its
\* ancestors is lowered.
C19_UnrelatedTypesRejected ==
  source.form = "typed" /\ (lowered # None \/ thrown # None) =>
    IF isTypeAssignable(SymbolTypes[source.value], SymbolTypes[source.target])
      THEN thrown = None /\ lowered # None
                         /\ lowered = <<"#" \o source.target, ":=", "#" \o source.value>>
      ELSE thrown # None

(***************************************************************************)
(* Variable sections.  A property is what parsing a declaration gives: its *)
(* name and its retain flag.  The text is the sequence of the lines.       *)
(***************************************************************************)
MaxProperties == 3

PropertyNames == [k \in 1..MaxProperties |-> "x" \o ToString(k)]

Headers == {"VAR", "VAR_INPUT", "VAR_OUTPUT", "VAR_IN_OUT", "VAR_TEMP"}

\* generateMemberVarSection and generateMethodVarSection of the section
\* generator, and generateVariableSections of the data block generator
SectionGenerators == {"member", "method", "dataBlock"}

SectionSources ==
  {[form |-> "section", generator |-> g, header |-> h, retain |-> r] :
     g \in SectionGenerators, h \in Headers,
     r \in UNION {[1..n -> BOOLEAN] : n \in 0..MaxProperties}}

parseProperties(src) ==
  [k \in DOMAIN src.retain |-> [name |-> PropertyNames[k], retain |-> src.retain[k]]]

splitProperties(properties) ==
  [retainedProps |-> SelectSeq(properties, LAMBDA property : property.retain),
   nonRetainedProps |-> SelectSeq(properties, LAMBDA property : ~property.retain)]

generateSclContent(sectionType, variables) ==
  IF variables = << >> THEN << >>
  ELSE <<sectionType>> \o [k \in DOMAIN variables |-> variables[k].name] \o <<"END_VAR">>

RetainedFirst(header, split) ==
  (IF split.retainedProps # << >>
     THEN generateSclContent(header \o " RETAIN", split.retainedProps) ELSE << >>)
  \o (IF split.nonRetainedProps # << >>
        THEN generateSclContent(header, split.nonRetainedProps) ELSE << >>)

\* the sections of SCLSectionGenerator for the parsed members or parameters
generateVarSection(properties, header) ==
  IF properties = << >> THEN << >> ELSE RetainedFirst(header, splitProperties(properties))

\* DataBlockGenerator.generateVariableSections
generateVariableSections(properties) ==
  LET split == splitProperties(properties) IN
  (IF split.nonRetainedProps # << >>
     THEN generateSclContent("VAR", split.nonRetainedProps) ELSE << >>)
  \o (IF split.retainedProps # << >>
        THEN generateSclContent("VAR RETAIN", split.retainedProps) ELSE << >>)

InitSection ==
  /\ imports = CHOOSE l \in Layouts : TRUE
  /\ status = [f \in Files |-> "ok"]
  /\ genFails = {}
  /\ InitCompiler
  /\ source \in {src \in SectionSources : src.generator = "dataBlock" => src.header = "VAR"}
  /\ expr = parseProperties(source)
  /\ lowered = None
  /\ thrown = None

GenerateMemberVarSection ==
  /\ lowered = None /\ source.generator = "member"
  /\ lowered' = generateVarSection(expr, source.header)
  /\ UNCHANGED <<world, source, expr, thrown, processedFiles, metadataRegistry, frames,
                 collectCount, calls, cats, jobs, artifacts, writes, lateRegistered, log,
                 registerCount>>

GenerateMethodVarSection ==
  /\ lowered = None /\ source.generator = "method"
  /\ lowered' = generateVarSection(expr, source.header)
  /\ UNCHANGED <<world, source, expr, thrown, processedFiles, metadataRegistry, frames,
                 collectCount, calls, cats, jobs, artifacts, writes, lateRegistered, log,
                 registerCount>>

GenerateVariableSections ==
  /\ lowered = None /\ source.generator = "dataBlock"
  /\ lowered' = generateVariableSections(expr)
  /\ UNCHANGED <<world, source, expr, thrown, processedFiles, metadataRegistry, frames,
                 collectCount, calls, cats, jobs, artifacts, writes, lateRegistered, log,
                 registerCount>>

NextSection == GenerateMemberVarSection \/ GenerateMethodVarSection \/ GenerateVariableSections

SpecSection == InitSection /\ [][NextSection]_vars

LineOf(text, wanted) == CHOOSE k \in DOMAIN text : text[k] = wanted

\* C20: under every header and for every kind of block, the retained
\* variable section comes before the plain variable section of the header.
C20_RetainedSectionFirst ==
  ( /\ lowered # None /\ source.form = "section"
    /\ \E k \in DOMAIN source.retain : source.retain[k]
    /\ \E k \in DOMAIN source.retain : ~source.retain[k] )
  => /\ source.header \o " RETAIN" \in Range(lowered)
     /\ source.header \in Range(lowered)
     /\ LineOf(lowered, source.header \o " RETAIN") < LineOf(lowered, source.header)

\* the last link of the source: its operator and the target it assigns
LastOperator == IF source.form = "single" THEN source.op ELSE source.ops[Len(source.ops)]

LastTarget ==
  IF source.form = "single" THEN "#" \o ReferencedName(source.target)
  ELSE "#" \o ChainTargets[Len(source.ops)]

\* the token sequence occurs in the text
Occurs(part, text) ==
  \E k \in 0..(Len(text) - Len(part)) : SubSeq(text, k + 1, k + Len(part)) = part

\* C28: a compound assignment lhs op= rhs computes lhs op (rhs): a right
\* side that is an operator expression binding no tighter than op (here
\* d + 1 under + - * /) stands in parentheses in the lowered text, in a
\* stand-alone compound assignment and in a compound link of a chain.
C28_CompoundKeepsGrouping ==
  ( /\ lowered # None
    /\ source.form \in {"single", "chain"}
    /\ LastOperator \in DOMAIN COMPOUND_OPERATOR_MAP
    /\ source.value.form = "sum" )
  => Occurs(<<LastTarget, ":=", LastTarget, OperatorText(LastOperator), "(", "#d", "+", "1", ")">>,
            lowered)

(***************************************************************************)
(* The runs of a for-loop and of the FOR loop it is lowered to.            *)
(***************************************************************************)
\* the values a loop variable is followed through
LoopValues == (0 - MaxStep - 1)..(10 + MaxStep + 1)

Compare(cmp, v, bound) ==
  CASE cmp = "LessThanToken" -> v < bound
    [] cmp = "LessThanEqualsToken" -> v <= bound
    [] cmp = "GreaterThanToken" -> v > bound
    [] cmp = "GreaterThanEqualsToken" -> v >= bound

\* the values of i for which the source loop executes its body, in order
RECURSIVE SourceRun(_)
SourceRun(v) ==
  IF v \notin LoopValues \/ ~Compare(source.cmp, v, source.bound.value) THEN << >>
  ELSE <<v>> \o (IF source.body = "break" THEN << >> ELSE SourceRun(v + StatedStep))

\* the number a literal of the text stands for
NumberOf(text) == CHOOSE v \in LoopValues : ToString(v) = text

\* FOR i := start TO end BY step executes its body while i <= end for a
\* positive step and while i >= end for a negative one
RECURSIVE SclRun(_, _, _)
SclRun(v, end, step) ==
  IF v \notin LoopValues \/ (IF step > 0 THEN v > end ELSE v < end) THEN << >>
  ELSE <<v>> \o (IF source.body = "break" THEN << >> ELSE SclRun(v + step, end, step))

LoweredRun ==
  SclRun(NumberOf(lowered[4]), NumberOf(lowered[6]),
         IF ByClause(lowered) = None THEN 1 ELSE NumberOf(ByClause(lowered)))

LiteralLoop ==
  /\ lowered # None /\ source.form = "for"
  /\ source.init.form = "literal" /\ source.bound.form = "literal"

\* C29: the lowered FOR loop executes its body for exactly the values of the
\* loop variable for which the source for-loop executes it; with a strict
\* comparison the bound itself is not iterated.
C29_SameIterations == LiteralLoop => LoweredRun = SourceRun(source.init.value)

(***************************************************************************)
(* The truth of a do-while condition and of the UNTIL clause it gives.     *)
(***************************************************************************)
\* the values of the variables a condition reads
Valuations == [flag : BOOLEAN, done : BOOLEAN, a : 0..1, b : 0..1]

\* the source loop continues under the valuation
Continues(c, env) ==
  CASE c = "flag" -> env.flag
    [] c = "!flag" -> ~env.flag
    [] c = "!!flag" -> env.flag
    [] c = "!(a > b)" -> ~(env.a > env.b)
    [] c = "!flag && done" -> ~env.flag /\ env.done
    [] c = "a !== b" -> env.a # env.b
    [] c = "!this.flag" -> ~env.flag

\* the value of an SCL condition: AND binds weaker than NOT, NOT weaker
\* than a comparison in parentheses
RECURSIVE SclHolds(_, _)
SclHolds(text, env) ==
  LET ands == {k \in DOMAIN text : text[k] = "AND"}
      value(name) == CASE name = "#flag" -> env.flag
                       [] name = "#done" -> env.done
                       [] name = "#a" -> env.a
                       [] name = "#b" -> env.b
  IN IF text[1] # "(" /\ ands # {}
       THEN LET k == CHOOSE k \in ands : \A j \in ands : k <= j
            IN SclHolds(SubSeq(text, 1, k - 1), env) /\ SclHolds(SubSeq(text, k + 1, Len(text)), env)
     ELSE IF text[1] = "NOT" THEN ~SclHolds(Tail(text), env)
     ELSE IF text[1] = "(" THEN SclHolds(SubSeq(text, 2, Len(text) - 1), env)
     ELSE IF Len(text) = 3
       THEN CASE text[2] = ">" -> value(text[1]) > value(text[3])
              [] text[2] = "<>" -> value(text[1]) # value(text[3])
     ELSE value(text[1])

\* C30: the lowered REPEAT loop repeats its body as often as the source
\* do-while loop: its UNTIL clause holds exactly when the continuation
\* condition of the source loop is false.
C30_UntilIsNegation ==
  lowered # None /\ source.form = "do" =>
    \A env \in Valuations :
      SclHolds(UntilClause(lowered), env) = ~Continues(source.condition, env)

(***************************************************************************)
(* The walk of getTypeAncestors through the type hierarchy.                *)
(***************************************************************************)
MaxAncestors == 5

\* the state of the compiler, which no operation on types touches
compilerState ==
  <<world, processedFiles, metadataRegistry, frames, collectCount, calls, cats, jobs, artifacts,
    writes, lateRegistered, log, registerCount>>

HierarchyTypes ==
  {typeInheritanceEntries[k][1] : k \in DOMAIN typeInheritanceEntries}
    \cup {typeInheritanceEntries[k][2] : k \in DOMAIN typeInheritanceEntries}

\* the types of the questions put to isTypeAssignable
AskedTypes == HierarchyTypes \cup {"INT", "REMOTE"}

InitTypes ==
  /\ imports = CHOOSE l \in Layouts : TRUE
  /\ status = [f \in Files |-> "ok"]
  /\ genFails = {}
  /\ InitCompiler
  /\ source \in [form : {"types"}, sourceType : AskedTypes, targetType : AskedTypes]
  /\ expr = [currentType |-> source.sourceType, ancestors |-> << >>, returned |-> FALSE]
  /\ lowered = << >>
  /\ thrown = None

\* one pass of the while loop of getTypeAncestors
AncestorStep ==
  /\ ~expr.returned
  /\ expr.currentType \in DOMAIN typeInheritanceMap
  /\ Len(expr.ancestors) < MaxAncestors
  /\ LET parentType == typeInheritanceMap[expr.currentType]
     IN expr' = [currentType |-> parentType, ancestors |-> Append(expr.ancestors, parentType),
                 returned |-> FALSE]
  /\ UNCHANGED <<compilerState, source, lowered, thrown>>

\* the loop is left, and isTypeAssignable answers from the ancestors
AncestorsReturned ==
  /\ ~expr.returned
  /\ expr.currentType \notin DOMAIN typeInheritanceMap
  /\ lowered' = <<expr.ancestors,
                  \/ source.sourceType = source.targetType
                  \/ source.targetType \in Range(expr.ancestors)>>
  /\ expr' = [expr EXCEPT !.returned = TRUE]
  /\ UNCHANGED <<compilerState, source, thrown>>

NextTypes == AncestorStep \/ AncestorsReturned

\* the loop and the return are straight-line code of one call
SpecTypes == InitTypes /\ [][NextTypes]_vars /\ WF_expr(NextTypes)

\* no type is given a parent twice
SingleParent ==
  \A j, k \in DOMAIN typeInheritanceEntries :
    typeInheritanceEntries[j][1] = typeInheritanceEntries[k][1] => j = k

\* the types reached from a type in one or more steps to the parent
RECURSIVE Above(_, _)
Above(types, n) ==
  IF n = 0 THEN {}
  ELSE LET parents == {typeInheritanceMap[t] : t \in types \cap DOMAIN typeInheritanceMap}
       IN parents \cup Above(parents, n - 1)

Acyclic == \A t \in HierarchyTypes : t \notin Above({t}, Cardinality(HierarchyTypes))

\* the walk so far is the chain of parents of the type asked about, and
\* ends in a root when it has returned
WalkIsChain ==
  source.form = "types" =>
    /\ \E n \in 0..Len(getTypeAncestors(source.sourceType)) :
         expr.ancestors = SubSeq(getTypeAncestors(source.sourceType), 1, n)
    /\ expr.returned =>
         /\ expr.currentType \notin DOMAIN typeInheritanceMap
         /\ lowered[1] = getTypeAncestors(source.sourceType)
         /\ Len(lowered[1]) < MaxAncestors

\* C24: the hardware type hierarchy is a forest: no type has two parents,
\* the parent relation has no cycle, and the walk of getTypeAncestors from
\* any type comes to an end at a type without a parent.
C24_HierarchyIsForest ==
  /\ [](SingleParent /\ Acyclic /\ WalkIsChain)
  /\ <>(expr.returned)

\* the walk from HW_DPMASTER has returned its four ancestors, HW_ANY last
C24_Witness ==
  /\ source.form = "types" /\ source.sourceType = "HW_DPMASTER"
  /\ expr.returned
  /\ lowered[1] = <<"HW_INTERFACE", "HW_SUBMODULE", "HW_IO", "HW_ANY">>

(***************************************************************************)
(* Time literals: TypeExtractor.extractValue on a string literal for a     *)
(* target type of the time family.  A text is the sequence of its parts:   *)
(* the type prefixes it begins with, then its body.                        *)
(***************************************************************************)
\* TIME_CONFIGS: the prefix of each type and the bodies its pattern matches
TIME_CONFIGS ==
  [ TIME |-> [prefix |-> "T#", matches |-> {"10s", "500ms"}],
    LTIME |-> [prefix |-> "LT#", matches |-> {"10s", "500ms"}],
    DATE |-> [prefix |-> "D#",
              matches |-> {"2024-01-01", "2024-01-01-12:00:00", "2024-01-01-12:00:00.000"}],
    TOD |-> [prefix |-> "TOD#", matches |-> {"12:00:00"}],
    LTOD |-> [prefix |-> "LTOD#", matches |-> {"12:00:00"}],
    DT |-> [prefix |-> "DT#", matches |-> {"2024-01-01-12:00:00", "2024-01-01-12:00:00.000"}],
    LDT |-> [prefix |-> "LDT#", matches |-> {"2024-01-01-12:00:00", "2024-01-01-12:00:00.000"}],
    DTL |-> [prefix |-> "DTL#", matches |-> {"2024-01-01-12:00:00.000"}] ]

TimeTypes == DOMAIN TIME_CONFIGS

TimePrefixes == {TIME_CONFIGS[t].prefix : t \in TimeTypes}

\* the bodies of the literals; 1.5s matches no pattern
TimeBodies == {"10s", "500ms", "2024-01-01", "12:00:00", "2024-01-01-12:00:00",
               "2024-01-01-12:00:00.000", "1.5s"}

\* a literal as the source writes it, with a prefix or without
TimeSources ==
  [form : {"time"}, type : TimeTypes, prefix : TimePrefixes \cup {None}, body : TimeBodies]

TextOf(src) == IF src.prefix = None THEN <<src.body>> ELSE <<src.prefix, src.body>>

startsWith(value, prefix) == value[1] = prefix

\* a pattern is anchored at a digit: it tests the body of a text without prefix
TestPattern(config, value) == Len(value) = 1 /\ value[1] \in config.matches

isTimeValue(value) ==
  \E t \in TimeTypes :
    startsWith(value, TIME_CONFIGS[t].prefix) \/ TestPattern(TIME_CONFIGS[t], value)

formatTimeValue(value, prefix) ==
  IF startsWith(value, prefix) THEN value
  ELSE IF startsWith(value, "T#") /\ prefix # "T#" THEN <<prefix>> \o Tail(value)
  ELSE <<prefix>> \o value

\* extractLiteralValue of a string literal
extractStringLiteralValue(text) ==
  IF startsWith(text, "T#") \/ TestPattern(TIME_CONFIGS.TIME, text)
    THEN (IF startsWith(text, "T#") THEN text ELSE <<"T#">> \o text)
    ELSE text

\* formatValue of a string for a type of the time family
formatTimeString(value, brandedType) ==
  IF isTimeValue(value) THEN formatTimeValue(value, "T#")
  ELSE formatTimeValue(value, TIME_CONFIGS[brandedType].prefix)

extractTimeValue(text, type) == formatTimeString(extractStringLiteralValue(text), type)

InitTime ==
  /\ imports = CHOOSE l \in Layouts : TRUE
  /\ status = [f \in Files |-> "ok"]
  /\ genFails = {}
  /\ InitCompiler
  /\ source \in TimeSources
  /\ expr = TextOf(source)
  /\ lowered = None
  /\ thrown = None

ExtractTimeValue ==
  /\ lowered = None
  /\ lowered' = extractTimeValue(expr, source.type)
  /\ UNCHANGED <<compilerState, source, expr, thrown>>

NextTime == ExtractTimeValue

SpecTime == InitTime /\ [][NextTime]_vars

\* C23: a literal formatted for a type of the time family carries the prefix
\* of that type, once: a source literal that begins with the prefix of any
\* time type is rewritten to the prefix of the target type.
C23_TargetPrefix ==
  lowered # None /\ source.form = "time" =>
    lowered = <<TIME_CONFIGS[source.type].prefix, source.body>>

(***************************************************************************)
(* The variable sections of a function block: the parameters of exec and   *)
(* the property members of the class, each with its decorators.            *)
(***************************************************************************)
MaxMembers == 2
MaxParameters == 2

MemberNames == [k \in 1..MaxMembers |-> "m" \o ToString(k)]
ParameterNames == [k \in 1..MaxParameters |-> "p" \o ToString(k)]

\* the scope decorators a property member is written with
MemberDecorators == {{}, {"Static"}, {"Temp"}, {"Input"}}

\* the scope decorators a parameter of exec is written with
ParameterDecorators == {{}, {"Input"}, {"Output"}, {"InOut"}, {"Input", "Output"}}

Declarations(decorators) == [decorators : decorators, retain : BOOLEAN]

MemberLists == UNION {[1..n -> Declarations(MemberDecorators)] : n \in 0..MaxMembers}
ParameterLists == UNION {[1..n -> Declarations(ParameterDecorators)] : n \in 0..MaxParameters}

\* DecoratorUtils.extractScopeMetadata: the scope of the first decorator of
\* the scope map that the declaration has, or none
scopeMap ==
  << <<"Input", "IN">>, <<"Output", "OUT">>, <<"InOut", "INOUT">>, <<"Temp", "TEMP">>,
     <<"Static", "STATIC">> >>

extractScopeMetadata(decorators) ==
  LET found == {k \in DOMAIN scopeMap : scopeMap[k][1] \in decorators}
  IN IF found = {} THEN None ELSE scopeMap[CHOOSE k \in found : \A j \in found : k <= j][2]

\* PropertyUtils.parsePropertyParameter of a member
parsePropertyParameter(name, declaration) ==
  [name |-> name, retain |-> declaration.retain,
   scope |-> extractScopeMetadata(declaration.decorators)]

\* parseMethodParameter of a parameter for the scope of the section
parseMethodParameter(name, declaration, scope) ==
  [name |-> name, retain |-> declaration.retain, scope |-> scope]

\* generateMethodVarSection: the parameters that have the decorator
MethodVarSection(parameters, decoratorName, header, scope) ==
  LET all == [k \in DOMAIN parameters |->
                [name |-> ParameterNames[k], declaration |-> parameters[k]]]
      decorated == SelectSeq(all, LAMBDA param : decoratorName \in param.declaration.decorators)
  IN generateVarSection(
       [k \in DOMAIN decorated |->
          parseMethodParameter(decorated[k].name, decorated[k].declaration, scope)],
       header)

\* generateMemberVarSection: the property members, all of them
MemberVarSection(members, decoratorName, header, scope) ==
  generateVarSection(
    [k \in DOMAIN members |-> parsePropertyParameter(MemberNames[k], members[k])], header)

\* the variable sections of generateFunctionBlockContent
generateFunctionBlockSections(members, parameters) ==
  MethodVarSection(parameters, "Input", "VAR_INPUT", "IN")
    \o MethodVarSection(parameters, "Output", "VAR_OUTPUT", "OUT")
    \o MemberVarSection(members, "Static", "VAR", "STATIC")

InitBlock ==
  /\ imports = CHOOSE l \in Layouts : TRUE
  /\ status = [f \in Files |-> "ok"]
  /\ genFails = {}
  /\ InitCompiler
  /\ \E m \in MemberLists, p \in ParameterLists :
       source = [form |-> "block", members |-> m, parameters |-> p]
  /\ expr = [members |-> source.members, parameters |-> source.parameters]
  /\ lowered = None
  /\ thrown = None

GenerateFunctionBlockContent ==
  /\ lowered = None
  /\ lowered' = generateFunctionBlockSections(expr.members, expr.parameters)
  /\ UNCHANGED <<compilerState, source, expr, thrown>>

NextBlock == GenerateFunctionBlockContent

SpecBlock == InitBlock /\ [][NextBlock]_vars

\* the header of the section of a scope and a retain flag
SectionHeader(scope, retain) ==
  (CASE scope = "IN" -> "VAR_INPUT"
     [] scope = "OUT" -> "VAR_OUTPUT"
     [] scope = "INOUT" -> "VAR_IN_OUT"
     [] scope = "TEMP" -> "VAR_TEMP"
     [] scope = "STATIC" -> "VAR") \o (IF retain THEN " RETAIN" ELSE "")

SectionHeaders == {SectionHeader(s, r) : s \in {"IN", "OUT", "INOUT", "TEMP", "STATIC"}, r \in BOOLEAN}

\* the headers of the sections of the text that declare the name
SectionsOf(text, name) ==
  {j \in DOMAIN text :
     /\ text[j] \in SectionHeaders
     /\ \E k \in DOMAIN text :
          /\ j < k /\ text[k] = name
          /\ \A h \in (j + 1)..k : text[h] \notin SectionHeaders}

\* the declared names with their decorators and retain flag
BlockRecords ==
  {[name |-> MemberNames[k], declaration |-> source.members[k]] : k \in DOMAIN source.members}
    \cup {[name |-> ParameterNames[k], declaration |-> source.parameters[k]] :
            k \in DOMAIN source.parameters}

\* C21: every property or parameter record of a block is emitted in exactly
\* one variable section, the one of its resolved scope and retain flag, and in
\* no section of another scope.
C21_OneSectionOfItsScope ==
  lowered # None /\ source.form = "block" =>
    \A r \in BlockRecords :
      LET scope == extractScopeMetadata(r.declaration.decorators) IN
      scope # None =>
        /\ Cardinality(SectionsOf(lowered, r.name)) = 1
        /\ \A j \in SectionsOf(lowered, r.name) :
             lowered[j] = SectionHeader(scope, r.declaration.retain)

(***************************************************************************)
(* The temp variables of a procedure: the declarations of the body of exec *)
(* and the control variables of its for-loops.                             *)
(***************************************************************************)
MaxStatements == 2
MaxNesting == 2

\* let x: REAL;   let i: DINT;
LocalDeclarations ==
  {[kind |-> "VariableStatement", name |-> "x", type |-> "REAL"],
   [kind |-> "VariableStatement", name |-> "i", type |-> "DINT"]}

\* the statements nested at most d deep: declarations, for (let i = ...) with
\* a body and if (...) with a body, a body being empty or one statement
RECURSIVE BodyStatements(_)
BodyStatements(depth) ==
  IF depth = 0 THEN LocalDeclarations
  ELSE LET inner == {<< >>} \cup {<<s>> : s \in BodyStatements(depth - 1)}
       IN LocalDeclarations
            \cup {[kind |-> "ForStatement", name |-> "i", statements |-> body] : body \in inner}
            \cup {[kind |-> "IfStatement", statements |-> body] : body \in inner}

\* the names declared by the statements of one block
DeclaredIn(statements) ==
  {statements[k].name : k \in {j \in DOMAIN statements : statements[j].kind = "VariableStatement"}}

\* the bodies of exec: no name is declared twice in the block of the body
ExecBodies ==
  {body \in UNION {[1..n -> BodyStatements(MaxNesting)] : n \in 0..MaxStatements} :
     \A j, k \in DOMAIN body :
       body[j].kind = "VariableStatement" /\ body[k].kind = "VariableStatement"
         /\ body[j].name = body[k].name => j = k}

\* loopVars.add in the order of the walk; a Set keeps the first insertion
AddAll(names, more) ==
  LET RECURSIVE add(_, _)
      add(acc, k) ==
        IF k > Len(more) THEN acc
        ELSE add(IF more[k] \in Range(acc) THEN acc ELSE Append(acc, more[k]), k + 1)
  IN add(names, 1)

\* extractLoopVars over the statements and all their descendants
RECURSIVE extractLoopVars(_)
extractLoopVars(statements) ==
  LET RECURSIVE walk(_)
      walk(k) ==
        IF k > Len(statements) THEN << >>
        ELSE (CASE statements[k].kind = "ForStatement" ->
                     <<statements[k].name>> \o extractLoopVars(statements[k].statements)
                [] statements[k].kind = "IfStatement" -> extractLoopVars(statements[k].statements)
                [] OTHER -> << >>) \o walk(k + 1)
  IN AddAll(<< >>, walk(1))

\* the declarations among the statements of the body itself
topLevelDeclarations(statements) ==
  LET declarations == SelectSeq(statements, LAMBDA s : s.kind = "VariableStatement")
  IN [k \in DOMAIN declarations |->
        [name |-> declarations[k].name, sclType |-> declarations[k].type]]

collectTempVars(statements) ==
  LET tempVars == topLevelDeclarations(statements)
      loopVars == extractLoopVars(statements)
      missing == SelectSeq(loopVars, LAMBDA v : \A k \in DOMAIN tempVars : tempVars[k].name # v)
  IN tempVars \o [k \in DOMAIN missing |-> [name |-> missing[k], sclType |-> "INT"]]

generateVariableDeclaration(options) == options.name \o " : " \o options.sclType \o ";"

generateTempVarsFromExecMethod(statements) ==
  LET tempVars == collectTempVars(statements)
  IN IF tempVars = << >> THEN << >>
     ELSE <<"VAR_TEMP">> \o [k \in DOMAIN tempVars |-> generateVariableDeclaration(tempVars[k])]
            \o <<"END_VAR">>

InitTemp ==
  /\ imports = CHOOSE l \in Layouts : TRUE
  /\ status = [f \in Files |-> "ok"]
  /\ genFails = {}
  /\ InitCompiler
  /\ source \in {[form |-> "exec", statements |-> body] : body \in ExecBodies}
  /\ expr = source.statements
  /\ lowered = None
  /\ thrown = None

GenerateTempVars ==
  /\ lowered = None
  /\ lowered' = generateTempVarsFromExecMethod(expr)
  /\ UNCHANGED <<compilerState, source, expr, thrown>>

NextTemp == GenerateTempVars

SpecTemp == InitTemp /\ [][NextTemp]_vars

\* the declarations anywhere in the statements, as [name, type]
RECURSIVE AllDeclarations(_)
AllDeclarations(statements) ==
  UNION {IF statements[k].kind = "VariableStatement"
           THEN {[name |-> statements[k].name, type |-> statements[k].type]}
           ELSE AllDeclarations(statements[k].statements) : k \in DOMAIN statements}

TempTypes == {"REAL", "DINT", "INT"}

\* the lines of the section that declare the name
DeclarationsOf(text, name) ==
  {k \in DOMAIN text : \E t \in TempTypes : text[k] = name \o " : " \o t \o ";"}

\* C22: the temp section of a procedure declares every local variable
\* declared anywhere in the body and every for-loop control variable, each
\* exactly once; a loop counter without another declaration is an INT.
C22_TempSectionComplete ==
  lowered # None /\ source.form = "exec" =>
    LET declared == AllDeclarations(source.statements)
        loopVars == Range(extractLoopVars(source.statements))
    IN /\ \A d \in declared : Cardinality(DeclarationsOf(lowered, d.name)) = 1
       /\ \A v \in loopVars :
            /\ Cardinality(DeclarationsOf(lowered, v)) = 1
            /\ (\A d \in declared : d.name # v) => "i : INT;" \in Range(lowered)

(***************************************************************************)
(* What a compile call that returned true has done.                        *)
(***************************************************************************)
\* the call resumed after its Promise.all and returned true
ReturnedTrue(c) == calls[c].kind = "compile" /\ calls[c].pc = "done"

\* the attributed declarations of the entry file of the call
AttributedDecls(c) == Range(Exports(EntryFile(c)))

\* C27: a compile call that resolves with true has written an artifact for
\* every attributed declaration of its entry file, and does not resolve with
\* true when the generation of one of them failed.
C27_TrueMeansAllWritten ==
  \A c \in Calls :
    ReturnedTrue(c) =>
      /\ \A d \in AttributedDecls(c) : Written(c, d)
      /\ AttributedDecls(c) \cap genFails = {}

(***************************************************************************)
(* The registry during phase 2.                                            *)
(***************************************************************************)
\* C25: the generation tasks share no mutable state but the registry and
\* the visited-file set, and the start of the generation tasks of a category
\* leaves the registry as phase 1 filled it.
C25_RegistryReadOnlyInPhase2 ==
  [][CompileBlockType => metadataRegistry' = metadataRegistry]_vars

(***************************************************************************)
(* The state of the singleton generators.  The function compiler and the   *)
(* function block compiler have one generator each; generateCode sets the  *)
(* source file and the checker of the generator, the generator makes a     *)
(* statement generator for the class, and the content is generated from    *)
(* these.  A task is the callback of compileBlockType for one declaration. *)
(***************************************************************************)
MaxTasks == 3

\* the declarations generated, of the entry files a and b; the program of
\* an entry file is named after the file
GeneratedBlocks ==
  {[name |-> "Main", file |-> "a", category |-> "FB"],
   [name |-> "Drive", file |-> "b", category |-> "FB"],
   [name |-> "Calc", file |-> "a", category |-> "FC"],
   [name |-> "Scale", file |-> "b", category |-> "FC"]}

TaskLists == UNION {[1..n -> GeneratedBlocks] : n \in 1..MaxTasks}

NoStatementGenerator == [currentFunctionName |-> None, sourceFile |-> None, checker |-> None]

\* a generator after its construction
NewGenerator == [sourceFile |-> None, checker |-> None, statementGenerator |-> NoStatementGenerator]

setSourceFile(g, sourceFile, program) == [g EXCEPT !.sourceFile = sourceFile, !.checker = program]

initializeStatementGenerator(g, className) ==
  IF g.sourceFile = None THEN g
  ELSE [g EXCEPT !.statementGenerator =
          [currentFunctionName |-> className, sourceFile |-> g.sourceFile, checker |-> g.checker]]

\* the content generated for the class: the header from the class, the temp
\* variables typed by the checker of the generator, the body lowered by its
\* statement generator
generateContent(g, block) ==
  [header |-> block.name,
   tempVarsChecker |-> g.checker,
   bodyProcedure |-> g.statementGenerator.currentFunctionName,
   bodySourceFile |-> g.statementGenerator.sourceFile,
   bodyChecker |-> g.statementGenerator.checker]

\* (variant: the content is generated from the state the generator was
\* found in)
generateCodeFromStateFound(g, block) ==
  [generator |-> initializeStatementGenerator(setSourceFile(g, block.file, block.file), block.name),
   code |-> generateContent(g, block)]

\* generateCode of the function and function block compilers, which has no
\* await: the generator is set and the content generated in one run
generateCode(g, block) ==
  LET ready == initializeStatementGenerator(setSourceFile(g, block.file, block.file), block.name)
  IN [generator |-> ready, code |-> generateContent(ready, block)]

InitGenerate ==
  /\ imports = CHOOSE l \in Layouts : TRUE
  /\ status = [f \in Files |-> "ok"]
  /\ genFails = {}
  /\ InitCompiler
  /\ source \in {[form |-> "tasks", tasks |-> t] : t \in TaskLists}
  /\ expr = [generators |-> [FC |-> NewGenerator, FB |-> NewGenerator],
             started |-> 0, pending |-> << >>]
  /\ lowered = << >>
  /\ thrown = None

\* the callback of types.map for the next declaration, up to its await
StartGenerationTask ==
  /\ expr.started < Len(source.tasks)
  /\ LET k == expr.started + 1
         block == source.tasks[k]
         result == generateCode(expr.generators[block.category], block)
     IN expr' = [generators |-> [expr.generators EXCEPT ![block.category] = result.generator],
                 started |-> k,
                 pending |-> Append(expr.pending, [task |-> k, code |-> result.code])]
  /\ UNCHANGED <<compilerState, source, lowered, thrown>>

\* a task resumes after its await and writes its code
WriteGenerated ==
  /\ expr.pending # << >>
  /\ lowered' = Append(lowered, Head(expr.pending))
  /\ expr' = [expr EXCEPT !.pending = Tail(@)]
  /\ UNCHANGED <<compilerState, source, thrown>>

NextGenerate == StartGenerationTask \/ WriteGenerated

SpecGenerate == InitGenerate /\ [][NextGenerate]_vars

\* the code is made from the file, the checker and the name of the block
OwnCode(block, code) ==
  /\ code.header = block.name
  /\ code.bodyProcedure = block.name
  /\ code.tempVarsChecker = block.file
  /\ code.bodySourceFile = block.file
  /\ code.bodyChecker = block.file

\* C26: when several declarations, of one or of several entry files, are
\* generated through the singleton generators, every artifact is made from
\* the source file, the checker and the procedure name of its own
\* declaration.
C26_OwnGeneratorState ==
  source.form = "tasks" =>
    \A w \in Range(lowered) \cup Range(expr.pending) : OwnCode(source.tasks[w.task], w.code)

\* two function blocks of different entry files have been generated by the
\* one generator, and neither has been written yet
C26_Witness ==
  /\ source.form = "tasks"
  /\ Len(expr.pending) = 2
  /\ LET first == source.tasks[expr.pending[1].task]
         second == source.tasks[expr.pending[2].task]
     IN /\ first.category = "FB" /\ second.category = "FB"
        /\ first.file # second.file
        /\ expr.generators.FB.sourceFile = second.file
====
